---- MODULE Spec2Model ----
(***************************************************************************)
(* A model of the XXL-JOB executor wrapper (package xxljob): the task      *)
(* registry, the executor's RegTask / Run / Stop life cycle, the           *)
(* middleware chain and the built-in Recovery, Timeout and Retry           *)
(* middlewares.                                                            *)
(*                                                                         *)
(* A handler value is a sequence of layers, outermost first: the empty     *)
(* sequence is the nil handler, a one-element sequence is a user handler,  *)
(* and m(next) is <<m>> \o next.                                           *)
(***************************************************************************)
EXTENDS Integers, Sequences, FiniteSets, TLC

\* ------------------------------------------------------------------ bounds
MaxTime == 2
NProcs == 2

MaxMws == 2
MaxRetries == 2
NInvs == 2
MaxWrites == 2
MaxCalls == 3
MaxFileLen == 4
\* stand-ins for maxLogFileSize and defaultLogPageSize in reads of files over
\* the size threshold
ScaledMaxSize == 3
ScaledPageSize == 2
\* stand-in for the scanner's token limit in the same reads
ScaledMaxToken == 2
MaxAppends == 3
MaxObjs == 3

\* ------------------------------------------------------------- value sets
\* middlewares of the shape of the documented example (a part before the call
\* of next, a part after it), and the built-in Recovery and Timeout
LogMws == {"mA", "mB"}
MwIds == LogMws \cup {"recovery", "timeout"}
MwLists == UNION {[1..k -> MwIds] : k \in 0..MaxMws}
\* what a user handler can do: return nil or an error, or panic with an error
\* value, with a value that is no error, or with nil
ReturnValues == {"nil", "errH"}
PanicValues == {"pErr", "pStr", "pNil"}
\* the invocations of a retrying handler, the maxRetries and backoff arguments
Invs == 1..NInvs
RetryCounts == (0 - 1)..MaxRetries
Backoffs == {1, 3}
\* errors: nil, the error returned by the handler's k-th call, ctx.Err()
Nil == [err |-> "nil", call |-> 0]
HandlerErr(k) == [err |-> "handler", call |-> k]
Canceled == [err |-> "Canceled", call |-> 0]
Names == {"", "a", "b"}
NilHandler == <<>>
UserHandlers == {<<"h1">>, <<"h2">>}
Procs == 1..NProcs
NoTasks == [n \in {} |-> 0]
NoRet == [op |-> "none"]
NoCall == [p |-> 0, op |-> "none", err |-> "nil"]
Idle == [pc |-> "idle", name |-> "", handler |-> NilHandler, wrapped |-> NilHandler]
\* a dispatch: the log ids of the run request (0 also when the request is
\* nil), the wrapped handler (the user handler alone, under Recovery, or
\* under Timeout), the errors a user handler returns
LogIDs == {0 - 1, 0, 1}
WrapKinds == {"plain", "recovery", "timeout"}
HandlerErrs == {"errH"}
NoHealth ==
    [pc |-> "idle", Running |-> FALSE, TaskCount |-> 0, StartedAt |-> 0,
     LastError |-> "nil"]
NotDispatched ==
    [pc |-> "idle", logPath |-> FALSE, logID |-> 0, kind |-> "plain", metrics |-> FALSE,
     err |-> "nil", result |-> <<>>, retErr |-> "nil", status |-> "none",
     outcome |-> "none", werr |-> "nil"]
NotCalled == [st |-> "idle", writes |-> 0, out |-> "nil"]
\* text: a string is the sequence of its characters; "T" stands for the
\* bracketed time stamp and the space that Write puts before the content
NL == "\n"
Contents == {<<"a">>}
Lines == {<<"b">>, <<"b", NL>>}
\* a text with a newline inside
LinesWithin == {<<NL, "b">>}
\* what file.WriteString answers: nil, or an error after none or some, not
\* all, of the bytes have reached the file
WriteErrs == {"nil", "errWrite"}
NoWrite == [pc |-> "idle", op |-> "none", line |-> <<>>, pending |-> <<>>, late |-> FALSE]
\* log files (NoFile: there is no file at the path), and the arguments of a
\* read
CR == "\r"
Chars == {"a", "b", NL, CR}
NoFile == <<"none">>
Files == UNION {[1..k -> Chars] : k \in 0..MaxFileLen}
FromLineNums == (0 - 1)..MaxFileLen
PageSizes == (0 - 1)..(MaxFileLen + 1)
\* what the operating system does to a read: nothing, or os.Stat fails (the
\* file exists), or os.Open fails, or the scanner's first file.Read fails
OsErrs == {"nil", "stat", "open", "read"}
NoRead == [file |-> NoFile, from |-> 0, page |-> 0, os |-> "nil", res |-> [err |-> "none"]]
\* log requests: nil, or a log id and a line number; the configured log path
NilReq == [LogID |-> 0, FromLineNum |-> 0, isNil |-> TRUE]
LogReqs ==
    {NilReq} \cup [LogID : {1, 2}, FromLineNum : (0 - 1)..MaxAppends, isNil : {FALSE}]
LogPaths == {"", "logs"}
NoQuery == [req |-> NilReq, logPath |-> "", os |-> "nil", files |-> NoTasks,
            res |-> [Code |-> 0]]
NotFollowing == [from |-> 0, got |-> <<>>, caughtUp |-> FALSE]
\* the names a directory entry can have, in the order os.ReadDir lists them
\* (sorted by file name), and the retention periods in days
DirOrder == << <<"app", ".log">>, <<"jobhandler-", 1, ".log">>,
               <<"jobhandler-", 1, ".txt">>, <<"jobhandler-", 2, ".log">> >>
DirNames == {DirOrder[i] : i \in 1..Len(DirOrder)}
RetentionDays == 0..MaxTime
NoSweep == [pc |-> "idle"]
\* the task names RegTask is called with: next to the calls of Run and Stop,
\* and next to the calls of the builder
TaskNames == {"a"}
BuilderTaskNames == {"", "a", "b"}
\* the middleware lists an executor is configured with
OptsChoices == {<<>>, <<"recovery", "timeout">>}

VARIABLES
    now,          \* what time.Now() returns
    tasks,        \* TaskRegistry.tasks: name -> TaskInfo
    ret,          \* the last direct TaskRegistry call: arguments, result, registry before it
    built,        \* NewExecutorWithOptions has returned the executor
    middlewares,  \* executorImpl.opts.middlewares
    running,      \* executorImpl.running
    startedAt,    \* executorImpl.startedAt (0 is the zero time)
    sdkTasks,     \* the SDK executor's task list: name -> TaskFunc's handler
    sdk,          \* the SDK executor: "init", "serving" (inside Run) or "stopped" (Stop was called)
    proc,         \* per goroutine: the Executor call it is in
    xret,         \* the last Executor call that returned: goroutine, call, error
    runCalled,    \* a Run call has been made since the last Stop call
    runsAccepted, \* Run calls that set running = true since the last Stop call
    chMws,        \* the middleware list given to applyMiddlewares
    chHandler,    \* the effective handler being invoked (NilHandler before it is built)
    gor,          \* the goroutines of the invocation, in order of creation
    errCh,        \* per Timeout layer (by depth): the buffer of its errCh
    ctxErr,       \* ctx.Err() of the invocation's context (0) and of each Timeout layer's
    events,       \* what the middlewares' pre/post parts and the handler did, in order
    hOut,         \* what the user handler did: "none" while it has not finished
    hCtx,         \* ctx.Err() of the handler's context at the moment it finished
    selReady,     \* per Timeout layer: the select cases that were ready when it proceeded
    result,       \* what the invocation returned to its caller ("none" before)
    crashed,      \* a panic reached the top of a goroutine: the process has died
    retryMade,    \* RetryMiddleware(maxRetries, baseBackoff) has been called
    maxRetries,   \* its argument maxRetries
    baseBackoff,  \* the value its argument backoff was given
    backoff,      \* its parameter backoff, the variable the returned closures capture
    inv,          \* the invocations of a handler wrapped by that middleware value
    disp,         \* the dispatched invocation: the task closure and executeTaskWithTrace
    hand,         \* the user handler of the dispatched invocation
    writer,       \* its LogWriter: "none" (not created), "open" (file set) or "closed" (file nil)
    logLines,     \* the lines of its log file, in order
    lastError,    \* executorImpl.lastError
    wFile,        \* logWriter.file of a writer w: "open" or "nil"
    wMu,          \* logWriter.mu: the goroutine that holds it, 0 when free
    fileBytes,    \* the content of w's log file
    wp,           \* per goroutine: the LogWriter call it is in
    hist,         \* the LogWriter calls that have returned, in order
    rd,           \* the last readLogFileWithPagination call: arguments and result
    fs,           \* the log directory: path -> content of the file
    lq,           \* the last handleLogRequest call: arguments, directory, response
    tail,         \* a client following the log of invocation 1
    wr,           \* the bytes of the writer's WriteString call not yet in the file
    appends,      \* the WriteString calls made on that file so far
    logDir,       \* the entries of the log directory: name -> isDir, mtime (days)
    swept,        \* the cleanupOldLogs call in progress, if any
    heap,         \* the TaskInfo objects allocated so far, by address
    regPtr,       \* TaskRegistry.tasks as Go holds it: name -> address of a TaskInfo
    snap,         \* the map a GetAll call returned, in its caller's hands
    snapOp,       \* who made the last step: the registry or the holder of the map
    bMws,         \* the middlewares of the options object a builder holds
    health        \* a GetHealthStatus call: its position and what it has read

regVars == <<tasks, ret>>
exVars == <<built, middlewares, running, startedAt, sdkTasks, sdk, proc, xret, runCalled, runsAccepted>>
chVars == <<chMws, chHandler, gor, errCh, ctxErr, events, hOut, hCtx, selReady, result, crashed>>
rtVars == <<retryMade, maxRetries, baseBackoff, backoff, inv>>
dpVars == <<disp, hand, writer, logLines, lastError>>
lwVars == <<wFile, wMu, fileBytes, wp, hist>>
rdVars == <<rd>>
lqVars == <<fs, lq, tail, wr, appends>>
cuVars == <<logDir, swept>>
snVars == <<heap, regPtr, snap, snapOp>>
bdVars == <<bMws>>
hsVars == <<health>>
others == <<dpVars, lwVars, rdVars, lqVars, cuVars, snVars, bdVars, hsVars>>
vars == <<now, regVars, exVars, chVars, rtVars, others>>
\* what the actions of one component leave alone
notReg == <<exVars, chVars, rtVars, others>>
notEx == <<chVars, rtVars, others>>
notCh == <<now, regVars, exVars, rtVars, others>>
notRt == <<now, regVars, exVars, chVars, others>>
notDp == <<now, hsVars, snVars, bdVars, regVars, exVars, chVars, rtVars, lwVars, rdVars, lqVars, cuVars>>
notLw == <<now, hsVars, snVars, bdVars, regVars, exVars, chVars, rtVars, dpVars, rdVars, lqVars, cuVars>>
notRd == <<now, hsVars, snVars, bdVars, regVars, exVars, chVars, rtVars, dpVars, lwVars, lqVars, cuVars>>
notLq == <<now, hsVars, snVars, bdVars, regVars, exVars, chVars, rtVars, dpVars, lwVars, rdVars, cuVars>>
notCu == <<hsVars, snVars, bdVars, regVars, exVars, chVars, rtVars, dpVars, lwVars, rdVars, lqVars>>
notSn == <<now, hsVars, bdVars, regVars, exVars, chVars, rtVars, dpVars, lwVars, rdVars, lqVars,
           cuVars>>
notBd == <<now, hsVars, regVars, chVars, rtVars, dpVars, lwVars, rdVars, lqVars, cuVars, snVars>>
notHs == <<now, regVars, exVars, chVars, rtVars, dpVars, lwVars, rdVars, lqVars, cuVars,
           snVars, bdVars>>

\* ------------------------------------------------------------ middleware.go
Wrap(m, next) == <<m>> \o next

RECURSIVE ChainLoopUp(_, _, _)
ChainLoopUp(mws, i, next) ==
    IF i > Len(mws) THEN next ELSE ChainLoopUp(mws, i + 1, Wrap(mws[i], next))

\* for i := len(middlewares) - 1; i >= 0; i-- { next = middlewares[i](next) }
RECURSIVE ChainLoop(_, _, _)
ChainLoop(mws, i, next) ==
    IF i < 1 THEN next ELSE ChainLoop(mws, i - 1, Wrap(mws[i], next))

ChainForward(mws, next) == ChainLoopUp(mws, 1, next)

Chain(mws, next) == ChainLoop(mws, Len(mws), next)

applyMiddlewares(handler, mws) ==
    IF Len(mws) = 0 THEN handler ELSE Chain(mws, handler)

\* ------------------------------------------------------------------ task.go
TaskInfo(name, handler, t) == [Name |-> name, Handler |-> handler, RegisteredAt |-> t]

Put(r, name, info) == [n \in DOMAIN r \cup {name} |-> IF n = name THEN info ELSE r[n]]

Remove(r, name) == [n \in DOMAIN r \ {name} |-> r[n]]

RegisterOverwrite(r, name, handler, t) ==
    IF name = "" THEN [err |-> "task name cannot be empty", tasks |-> r]
    ELSE IF handler = NilHandler THEN [err |-> "task handler cannot be nil", tasks |-> r]
    ELSE [err |-> "nil", tasks |-> Put(r, name, TaskInfo(name, handler, t))]

\* TaskRegistry.Register on registry r at time t: the error and the registry after
Register(r, name, handler, t) ==
    IF name = "" THEN [err |-> "task name cannot be empty", tasks |-> r]
    ELSE IF handler = NilHandler THEN [err |-> "task handler cannot be nil", tasks |-> r]
    ELSE IF name \in DOMAIN r THEN [err |-> "task already registered", tasks |-> r]
    ELSE [err |-> "nil", tasks |-> Put(r, name, TaskInfo(name, handler, t))]

Unregister(r, name) ==
    IF name \notin DOMAIN r THEN [err |-> "task not found", tasks |-> r]
    ELSE [err |-> "nil", tasks |-> Remove(r, name)]

Get(r, name) ==
    IF name \in DOMAIN r THEN [info |-> r[name], exists |-> TRUE]
    ELSE [info |-> "nil", exists |-> FALSE]

GetNames(r) == DOMAIN r

Count(r) == Cardinality(DOMAIN r)

\* direct calls on a TaskRegistry
CallRegister(name, handler) ==
    LET res == Register(tasks, name, handler, now) IN
    /\ tasks' = res.tasks
    /\ ret' = [op |-> "Register", name |-> name, handler |-> handler,
               err |-> res.err, pre |-> tasks, at |-> now]
    /\ UNCHANGED <<now, notReg>>

CallUnregister(name) ==
    LET res == Unregister(tasks, name) IN
    /\ tasks' = res.tasks
    /\ ret' = [op |-> "Unregister", name |-> name, err |-> res.err, pre |-> tasks]
    /\ UNCHANGED <<now, notReg>>

CallClear ==
    /\ tasks' = NoTasks
    /\ ret' = [op |-> "Clear", pre |-> tasks]
    /\ UNCHANGED <<now, notReg>>

\* the wall clock advances
Tick ==
    /\ now < MaxTime
    /\ now' = now + 1
    /\ UNCHANGED <<regVars, notReg>>

\* ------------------------------------ task.go, the map of *TaskInfo pointers
\* the TaskInfo values a map of pointers leads to
Deref(m, h) == [n \in DOMAIN m |-> h[m[n]]]

\* r.tasks[name] = &TaskInfo{...}: a new object, and its address in the map
PtrRegister(name, handler) ==
    LET res == Register(Deref(regPtr, heap), name, handler, now) IN
    /\ res.err = "nil"
    /\ Len(heap) < MaxObjs
    /\ heap' = Append(heap, res.tasks[name])
    /\ regPtr' = Put(regPtr, name, Len(heap) + 1)
    /\ snapOp' = "registry"
    /\ UNCHANGED <<snap, notSn>>

\* delete(r.tasks, name)
PtrUnregister(name) ==
    /\ Unregister(Deref(regPtr, heap), name).err = "nil"
    /\ regPtr' = Remove(regPtr, name)
    /\ snapOp' = "registry"
    /\ UNCHANGED <<heap, snap, notSn>>

\* r.tasks = make(map[string]*TaskInfo)
PtrClear ==
    /\ regPtr' = NoTasks
    /\ snapOp' = "registry"
    /\ UNCHANGED <<heap, snap, notSn>>

\* result := make(map[string]*TaskInfo, len(r.tasks));
\* for k, v := range r.tasks { result[k] = v }: the new map holds the same
\* addresses, no object is allocated
GetAll(m) == [n \in DOMAIN m |-> m[n]]

CallGetAll ==
    /\ snap' = [taken |-> TRUE, m |-> GetAll(regPtr)]
    /\ snapOp' = "registry"
    /\ UNCHANGED <<heap, regPtr, notSn>>

\* the holder of the map: snapshot[name] = &TaskInfo{...}
SnapInsert(name, handler) ==
    /\ snap.taken
    /\ Len(heap) < MaxObjs
    /\ heap' = Append(heap, TaskInfo(name, handler, now))
    /\ snap' = [snap EXCEPT !.m = Put(@, name, Len(heap) + 1)]
    /\ snapOp' = "holder"
    /\ UNCHANGED <<regPtr, notSn>>

\* delete(snapshot, name)
SnapDelete(name) ==
    /\ snap.taken
    /\ name \in DOMAIN snap.m
    /\ snap' = [snap EXCEPT !.m = Remove(@, name)]
    /\ snapOp' = "holder"
    /\ UNCHANGED <<heap, regPtr, notSn>>

\* snapshot[name].Handler = handler
SnapMutate(name, handler) ==
    /\ snap.taken
    /\ name \in DOMAIN snap.m
    /\ heap' = [heap EXCEPT ![snap.m[name]].Handler = handler]
    /\ snapOp' = "holder"
    /\ UNCHANGED <<regPtr, snap, notSn>>

\* ------------------------------------------------- executor (executorImpl)
Return(p, op, err) ==
    /\ proc' = [proc EXCEPT ![p] = Idle]
    /\ xret' = [p |-> p, op |-> op, err |-> err]

Enter(p, pc, taskName, handler) ==
    /\ proc' = [proc EXCEPT ![p] = [pc |-> pc, name |-> taskName, handler |-> handler,
                                     wrapped |-> NilHandler]]
    /\ UNCHANGED xret

\* NewExecutorWithOptions: a fresh registry, running = false, the options kept
NewExecutorWithOptions(mws) ==
    /\ ~built
    /\ built' = TRUE
    /\ middlewares' = mws
    /\ tasks' = NoTasks
    /\ running' = FALSE
    /\ UNCHANGED <<now, ret, startedAt, sdkTasks, sdk, proc, xret, runCalled, runsAccepted>>
    /\ UNCHANGED notEx

\* OptionsBuilder.Middleware: b.opts.middlewares = append(b.opts.middlewares, m).
\* Build returns b.opts itself and the executor keeps it as e.opts, so after
\* Build the builder and the executor hold one options object
BuilderMiddleware(m) ==
    /\ Len(bMws) < MaxMws
    /\ bMws' = Append(bMws, m)
    /\ middlewares' = IF built THEN bMws' ELSE middlewares
    /\ UNCHANGED <<built, running, startedAt, sdkTasks, sdk, proc, xret, runCalled,
                   runsAccepted>>
    /\ UNCHANGED notBd

\* ExecutorBuilder.Build: opts := b.builder.Build(); NewExecutorWithOptions(opts)
Build == NewExecutorWithOptions(bMws)

\* RegTask, first step: read e.running under the read lock, then release it
RegTaskCheck(p, taskName, handler) ==
    /\ built
    /\ proc[p].pc = "idle"
    /\ IF running
       THEN Return(p, "RegTask", "cannot register task after executor started")
       ELSE Enter(p, "reg_wrap", taskName, handler)
    /\ UNCHANGED <<now, regVars, built, middlewares, running, startedAt, sdkTasks, sdk,
                   runCalled, runsAccepted>>
    /\ UNCHANGED notEx

\* RegTask, second step: wrappedHandler := applyMiddlewares(handler,
\* e.opts.middlewares), with the middleware list as it is read now, under no
\* lock
RegTaskWrap(p) ==
    /\ proc[p].pc = "reg_wrap"
    /\ proc' = [proc EXCEPT ![p].pc = "reg_register",
                            ![p].wrapped = applyMiddlewares(proc[p].handler, middlewares)]
    /\ UNCHANGED <<now, regVars, built, middlewares, running, startedAt, sdkTasks, sdk,
                   xret, runCalled, runsAccepted>>
    /\ UNCHANGED notEx

\* a RegTask that hands the SDK executor the handler as it was passed in
RegTaskRegisterRaw(p) ==
    /\ proc[p].pc = "reg_register"
    /\ LET res == Register(tasks, proc[p].name, proc[p].wrapped, now)
       IN /\ tasks' = res.tasks
          /\ IF res.err # "nil"
             THEN Return(p, "RegTask", "failed to register task")
             ELSE /\ proc' = [proc EXCEPT ![p].pc = "reg_sdk",
                                          ![p].wrapped = proc[p].handler]
                  /\ UNCHANGED xret
    /\ UNCHANGED <<now, ret, built, middlewares, running, startedAt, sdkTasks, sdk,
                   runCalled, runsAccepted>>
    /\ UNCHANGED notEx

\* RegTask, third step: e.registry.Register(taskName, wrappedHandler), under
\* the registry's lock and with the time of this moment
RegTaskRegister(p) ==
    /\ proc[p].pc = "reg_register"
    /\ LET res == Register(tasks, proc[p].name, proc[p].wrapped, now)
       IN /\ tasks' = res.tasks
          /\ IF res.err # "nil"
             THEN Return(p, "RegTask", "failed to register task")
             ELSE /\ proc' = [proc EXCEPT ![p].pc = "reg_sdk"]
                  /\ UNCHANGED xret
    /\ UNCHANGED <<now, ret, built, middlewares, running, startedAt, sdkTasks, sdk,
                   runCalled, runsAccepted>>
    /\ UNCHANGED notEx

\* RegTask, last step: e.executor.RegTask(taskName, closure over wrappedHandler)
RegTaskSdk(p) ==
    /\ proc[p].pc = "reg_sdk"
    /\ sdkTasks' = Put(sdkTasks, proc[p].name, proc[p].wrapped)
    /\ Return(p, "RegTask", "nil")
    /\ UNCHANGED <<now, regVars, built, middlewares, running, startedAt, sdk,
                   runCalled, runsAccepted>>
    /\ UNCHANGED notEx

RunGateAlways(p) ==
    /\ built
    /\ proc[p].pc = "idle"
    /\ running' = TRUE
    /\ startedAt' = now
    /\ Enter(p, "run_start", "", NilHandler)
    /\ runCalled' = TRUE
    /\ runsAccepted' = runsAccepted + 1
    /\ UNCHANGED <<now, regVars, built, middlewares, sdkTasks, sdk>>
    /\ UNCHANGED notEx

\* Run, first step, under the write lock: reject when running, else set
\* running = true and startedAt = time.Now()
RunGate(p) ==
    /\ built
    /\ proc[p].pc = "idle"
    /\ IF running
       THEN /\ Return(p, "Run", "executor already running")
            /\ UNCHANGED <<running, startedAt, runsAccepted>>
       ELSE /\ running' = TRUE
            /\ startedAt' = now
            /\ Enter(p, "run_start", "", NilHandler)
            /\ runsAccepted' = runsAccepted + 1
    /\ runCalled' = TRUE
    /\ UNCHANGED <<now, regVars, built, middlewares, sdkTasks, sdk>>
    /\ UNCHANGED notEx

\* Run, second step: log the start, then call e.executor.Run(), which blocks
RunSdk(p) ==
    /\ proc[p].pc = "run_start"
    /\ sdk' = "serving"
    /\ Enter(p, "run_sdk", "", NilHandler)
    /\ UNCHANGED <<now, regVars, built, middlewares, running, startedAt, sdkTasks,
                   runCalled, runsAccepted>>
    /\ UNCHANGED notEx

\* Run, last step: e.executor.Run() returns err, and Run returns it
RunReturn(p, err) ==
    /\ proc[p].pc = "run_sdk"
    /\ Return(p, "Run", err)
    /\ UNCHANGED <<now, regVars, built, middlewares, running, startedAt, sdkTasks, sdk,
                   runCalled, runsAccepted>>
    /\ UNCHANGED notEx

\* Stop, all of it under the write lock: nothing when not running, else
\* running = false and e.executor.Stop()
Stop(p) ==
    /\ built
    /\ proc[p].pc = "idle"
    /\ IF ~running
       THEN UNCHANGED <<running, sdk>>
       ELSE /\ running' = FALSE
            /\ sdk' = "stopped"
    /\ Return(p, "Stop", "nil")
    /\ runCalled' = FALSE
    /\ runsAccepted' = 0
    /\ UNCHANGED <<now, regVars, built, middlewares, startedAt, sdkTasks>>
    /\ UNCHANGED notEx

IsRunning == running

\* ------------------------------------------- one invocation of a handler
\* A goroutine is [lo, top, mode, val]: its frames are the layers lo..top of
\* chHandler, top is the frame in control, and mode says what happens there:
\*   "enter"   the layer at top starts executing
\*   "running" the user handler (the last layer) is executing
\*   "select"  the Timeout layer at top waits in its select
\*   "return"  the layer called by top has returned val to it
\*   "panic"   a panic with value val unwinds into the frame at top
\*   "exit"    the goroutine has ended
\* top = lo - 1 is the goroutine's own function: the caller of the handler for
\* the first goroutine, the go func() of a Timeout layer for the others.
G(lo, top, mode, val) == [lo |-> lo, top |-> top, mode |-> mode, val |-> val]

SetG(g, rec) == gor' = [gor EXCEPT ![g] = rec]

At(g, mode) ==
    /\ ~crashed
    /\ g \in DOMAIN gor
    /\ gor[g].mode = mode

InFrame(g) == gor[g].top >= gor[g].lo

Layer(g) == chHandler[gor[g].top]

Max(S) == CHOOSE x \in S : \A y \in S : y <= x

\* the context a layer at depth d is called with: that of the nearest Timeout
\* layer around it, or the invocation's own (0)
CtxScope(d) ==
    LET ts == {k \in 1..(d - 1) : chHandler[k] = "timeout"}
    IN IF ts = {} THEN 0 ELSE Max(ts)

\* cancelling context d with err: it and the contexts derived from it that are
\* not done yet become done with err
CancelCtx(d, err) ==
    [k \in DOMAIN ctxErr |-> IF k >= d /\ ctxErr[k] = "nil" THEN err ELSE ctxErr[k]]

\* the effective handler is built from a user handler and a middleware list,
\* and called with a live context
Invoke(mws, h) ==
    /\ gor = <<>>
    /\ chMws' = mws
    /\ chHandler' = applyMiddlewares(h, mws)
    /\ gor' = <<G(1, 1, "enter", "nil")>>
    /\ ctxErr' = [k \in {0} |-> "nil"]
    /\ UNCHANGED <<errCh, events, hOut, hCtx, selReady, result, crashed>>
    /\ UNCHANGED notCh

\* a middleware like the documented example: its part before next(ctx, param)
LogEnter(g) ==
    /\ At(g, "enter") /\ Layer(g) \in LogMws
    /\ events' = Append(events, <<"pre", Layer(g)>>)
    /\ SetG(g, G(gor[g].lo, gor[g].top + 1, "enter", "nil"))
    /\ UNCHANGED <<chMws, chHandler, errCh, ctxErr, hOut, hCtx, selReady, result, crashed>>
    /\ UNCHANGED notCh

\* its part after next returned; it returns what next returned
LogReturn(g) ==
    /\ At(g, "return") /\ InFrame(g) /\ Layer(g) \in LogMws
    /\ events' = Append(events, <<"post", Layer(g)>>)
    /\ SetG(g, G(gor[g].lo, gor[g].top - 1, "return", gor[g].val))
    /\ UNCHANGED <<chMws, chHandler, errCh, ctxErr, hOut, hCtx, selReady, result, crashed>>
    /\ UNCHANGED notCh

\* it defers nothing: a panic of next unwinds through it
LogPanic(g) ==
    /\ At(g, "panic") /\ InFrame(g) /\ Layer(g) \in LogMws
    /\ SetG(g, G(gor[g].lo, gor[g].top - 1, "panic", gor[g].val))
    /\ UNCHANGED <<chMws, chHandler, errCh, ctxErr, events, hOut, hCtx, selReady, result,
                   crashed>>
    /\ UNCHANGED notCh

\* recover() in a deferred call: the panic value, and for panic(nil) the
\* runtime's *PanicNilError (go 1.21 and later)
Recovered(v) == IF v = "pNil" THEN "PanicNilError" ELSE v

IsErrorValue(r) == r \in {"pErr", "PanicNilError"}

RecoveryErrNil(v) == "nil"

\* RecoveryMiddleware's deferred function on a panic with value v: the error
\* it makes the call return
RecoveryErr(v) ==
    LET r == Recovered(v)
    IN IF IsErrorValue(r) THEN r ELSE "panicError(pStr)"

\* RecoveryMiddleware: defer func() {...}(); return next(ctx, param)
RecoveryEnter(g) ==
    /\ At(g, "enter") /\ Layer(g) = "recovery"
    /\ SetG(g, G(gor[g].lo, gor[g].top + 1, "enter", "nil"))
    /\ UNCHANGED <<chMws, chHandler, errCh, ctxErr, events, hOut, hCtx, selReady, result,
                   crashed>>
    /\ UNCHANGED notCh

\* next returned: recover() is nil, the result passes through
RecoveryReturn(g) ==
    /\ At(g, "return") /\ InFrame(g) /\ Layer(g) = "recovery"
    /\ SetG(g, G(gor[g].lo, gor[g].top - 1, "return", gor[g].val))
    /\ UNCHANGED <<chMws, chHandler, errCh, ctxErr, events, hOut, hCtx, selReady, result,
                   crashed>>
    /\ UNCHANGED notCh

\* next panicked in this goroutine: the deferred function recovers and sets err
RecoveryPanic(g) ==
    /\ At(g, "panic") /\ InFrame(g) /\ Layer(g) = "recovery"
    /\ SetG(g, G(gor[g].lo, gor[g].top - 1, "return", RecoveryErr(gor[g].val)))
    /\ UNCHANGED <<chMws, chHandler, errCh, ctxErr, events, hOut, hCtx, selReady, result,
                   crashed>>
    /\ UNCHANGED notCh

\* make(chan error, 1)
ErrChCap == 1

\* TimeoutMiddleware up to the select: context.WithTimeout (a context derived
\* from one that is done is done with the same error), errCh, go func()
TimeoutEnter(g) ==
    /\ At(g, "enter") /\ Layer(g) = "timeout"
    /\ LET d == gor[g].top IN
       /\ ctxErr' = [k \in DOMAIN ctxErr \cup {d} |->
                        IF k = d THEN ctxErr[CtxScope(d)] ELSE ctxErr[k]]
       /\ errCh' = [k \in DOMAIN errCh \cup {d} |-> IF k = d THEN <<>> ELSE errCh[k]]
       /\ gor' = Append([gor EXCEPT ![g] = G(gor[g].lo, d, "select", "nil")],
                        G(d + 1, d + 1, "enter", "nil"))
    /\ UNCHANGED <<chMws, chHandler, events, hOut, hCtx, selReady, result, crashed>>
    /\ UNCHANGED notCh

Ready(d) ==
    (IF Len(errCh[d]) > 0 THEN {"errCh"} ELSE {}) \cup
    (IF ctxErr[d] # "nil" THEN {"ctx.Done"} ELSE {})

\* case err := <-errCh: return err (the deferred cancel() then runs)
TimeoutSelectErr(g) ==
    /\ At(g, "select")
    /\ LET d == gor[g].top IN
       /\ "errCh" \in Ready(d)
       /\ selReady' = [k \in DOMAIN selReady \cup {d} |->
                          IF k = d THEN Ready(d) ELSE selReady[k]]
       /\ errCh' = [errCh EXCEPT ![d] = Tail(@)]
       /\ ctxErr' = CancelCtx(d, "Canceled")
       /\ SetG(g, G(gor[g].lo, d - 1, "return", Head(errCh[d])))
    /\ UNCHANGED <<chMws, chHandler, events, hOut, hCtx, result, crashed>>
    /\ UNCHANGED notCh

TimeoutSelectDoneNil(g) ==
    /\ At(g, "select")
    /\ LET d == gor[g].top IN
       /\ "ctx.Done" \in Ready(d)
       /\ selReady' = [k \in DOMAIN selReady \cup {d} |->
                          IF k = d THEN Ready(d) ELSE selReady[k]]
       /\ SetG(g, G(gor[g].lo, d - 1, "return", "nil"))
    /\ UNCHANGED <<chMws, chHandler, errCh, ctxErr, events, hOut, hCtx, result, crashed>>
    /\ UNCHANGED notCh

\* case <-ctx.Done(): return ctx.Err()
TimeoutSelectDone(g) ==
    /\ At(g, "select")
    /\ LET d == gor[g].top IN
       /\ "ctx.Done" \in Ready(d)
       /\ selReady' = [k \in DOMAIN selReady \cup {d} |->
                          IF k = d THEN Ready(d) ELSE selReady[k]]
       /\ SetG(g, G(gor[g].lo, d - 1, "return", ctxErr[d]))
    /\ UNCHANGED <<chMws, chHandler, errCh, ctxErr, events, hOut, hCtx, result, crashed>>
    /\ UNCHANGED notCh

\* the send as it would be on make(chan error): only to a waiting receiver
TimeoutSendUnbuffered(g) ==
    /\ At(g, "return") /\ ~InFrame(g) /\ g > 1
    /\ LET d == gor[g].lo - 1 IN
       /\ \E c \in DOMAIN gor : gor[c].top = d /\ gor[c].mode = "select"
       /\ errCh' = [errCh EXCEPT ![d] = Append(@, gor[g].val)]
    /\ SetG(g, G(gor[g].lo, gor[g].top, "exit", gor[g].val))
    /\ UNCHANGED <<chMws, chHandler, ctxErr, events, hOut, hCtx, selReady, result, crashed>>
    /\ UNCHANGED notCh

\* go func() { errCh <- next(ctx, param) }(): next has returned, the send
\* proceeds when the buffer has room, and the goroutine ends
TimeoutSend(g) ==
    /\ At(g, "return") /\ ~InFrame(g) /\ g > 1
    /\ LET d == gor[g].lo - 1 IN
       /\ Len(errCh[d]) < ErrChCap
       /\ errCh' = [errCh EXCEPT ![d] = Append(@, gor[g].val)]
    /\ SetG(g, G(gor[g].lo, gor[g].top, "exit", gor[g].val))
    /\ UNCHANGED <<chMws, chHandler, ctxErr, events, hOut, hCtx, selReady, result, crashed>>
    /\ UNCHANGED notCh

\* the deadline of the Timeout layer at depth d passes
DeadlineFires(d) ==
    /\ ~crashed
    /\ d \in DOMAIN ctxErr /\ d > 0
    /\ ctxErr[d] = "nil"
    /\ ctxErr' = CancelCtx(d, "DeadlineExceeded")
    /\ UNCHANGED <<chMws, chHandler, gor, errCh, events, hOut, hCtx, selReady, result, crashed>>
    /\ UNCHANGED notCh

\* the invocation's own context is cancelled by its owner
ParentCancel ==
    /\ ~crashed
    /\ 0 \in DOMAIN ctxErr
    /\ ctxErr[0] = "nil"
    /\ ctxErr' = CancelCtx(0, "Canceled")
    /\ UNCHANGED <<chMws, chHandler, gor, errCh, events, hOut, hCtx, selReady, result, crashed>>
    /\ UNCHANGED notCh

\* the user handler is called
HandlerCall(g) ==
    /\ At(g, "enter") /\ gor[g].top = Len(chHandler) /\ Layer(g) \notin MwIds
    /\ events' = Append(events, <<"call", Layer(g)>>)
    /\ SetG(g, G(gor[g].lo, gor[g].top, "running", "nil"))
    /\ UNCHANGED <<chMws, chHandler, errCh, ctxErr, hOut, hCtx, selReady, result, crashed>>
    /\ UNCHANGED notCh

\* the user handler returns out
HandlerReturns(g, out) ==
    /\ At(g, "running")
    /\ hOut' = out
    /\ hCtx' = ctxErr[CtxScope(gor[g].top)]
    /\ SetG(g, G(gor[g].lo, gor[g].top - 1, "return", out))
    /\ UNCHANGED <<chMws, chHandler, errCh, ctxErr, events, selReady, result, crashed>>
    /\ UNCHANGED notCh

\* the user handler panics with value v
HandlerPanics(g, v) ==
    /\ At(g, "running")
    /\ hOut' = v
    /\ hCtx' = ctxErr[CtxScope(gor[g].top)]
    /\ SetG(g, G(gor[g].lo, gor[g].top - 1, "panic", v))
    /\ UNCHANGED <<chMws, chHandler, errCh, ctxErr, events, selReady, result, crashed>>
    /\ UNCHANGED notCh

\* the effective handler returns to its caller
CallerReturn(g) ==
    /\ At(g, "return") /\ ~InFrame(g) /\ g = 1
    /\ result' = gor[g].val
    /\ SetG(g, G(gor[g].lo, gor[g].top, "exit", gor[g].val))
    /\ UNCHANGED <<chMws, chHandler, errCh, ctxErr, events, hOut, hCtx, selReady, crashed>>
    /\ UNCHANGED notCh

\* a panic leaves the effective handler in the caller's goroutine: the caller
\* observes it
CallerPanic(g) ==
    /\ At(g, "panic") /\ ~InFrame(g) /\ g = 1
    /\ result' = "PANIC"
    /\ SetG(g, G(gor[g].lo, gor[g].top, "exit", gor[g].val))
    /\ UNCHANGED <<chMws, chHandler, errCh, ctxErr, events, hOut, hCtx, selReady, crashed>>
    /\ UNCHANGED notCh

\* a panic reaches the top of a goroutine started by a Timeout layer: no
\* deferred call of another goroutine can recover it, the program dies
GoroutinePanic(g) ==
    /\ At(g, "panic") /\ ~InFrame(g) /\ g > 1
    /\ crashed' = TRUE
    /\ SetG(g, G(gor[g].lo, gor[g].top, "exit", gor[g].val))
    /\ UNCHANGED <<chMws, chHandler, errCh, ctxErr, events, hOut, hCtx, selReady, result>>
    /\ UNCHANGED notCh

\* ------------------------------------------------------- RetryMiddleware
\* One invocation of the handler RetryMiddleware's middleware returns:
\*   pc       "idle", "call" (at err := next(ctx, param)), "wait" (at the
\*            select, its timer started: about to poll the cases, or parked
\*            because none was ready), "parked" (it was parked in the select,
\*            its timer pending, when the context was cancelled), "store"
\*            (backoff read, product not yet written), "done"
\*   i, lastErr   the loop's variables
\*   calls, nils, last   calls of next so far, those that returned nil, the
\*            last one's result
\*   timer    the duration given to time.After by the select it waits in
\*   tmp      the value of backoff read by backoff *= 2, until it is written
\*   ctx      ctx.Err() of the invocation's context
\*   ret      what the invocation returned
NotInvoked ==
    [pc |-> "idle", i |-> 0, lastErr |-> Nil, calls |-> 0, nils |-> 0, last |-> Nil,
     timer |-> 0, tmp |-> 0, ctx |-> Nil, ret |-> Nil]

LoopCondStrict(i, n) == i < n

\* for i := 0; i <= maxRetries; i++
LoopCond(i, n) == i <= n

RetryMiddleware(n, b) ==
    /\ ~retryMade
    /\ retryMade' = TRUE
    /\ maxRetries' = n
    /\ baseBackoff' = b
    /\ backoff' = b
    /\ UNCHANGED inv
    /\ UNCHANGED notRt

Finish(v, err) == [inv[v] EXCEPT !.pc = "done", !.ret = err, !.timer = 0]

\* the wrapped handler is called: lastErr = nil, i = 0, the loop test
\* (invocations are numbered in the order they start)
RetryInvoke(v) ==
    /\ retryMade
    /\ inv[v].pc = "idle"
    /\ \A u \in Invs : u < v => inv[u].pc # "idle"
    /\ inv' = [inv EXCEPT ![v] =
                 IF LoopCond(0, maxRetries) THEN [inv[v] EXCEPT !.pc = "call"]
                 ELSE Finish(v, inv[v].lastErr)]
    /\ UNCHANGED <<retryMade, maxRetries, baseBackoff, backoff>>
    /\ UNCHANGED notRt

\* what follows a call of next that returned err: return nil on nil; else
\* lastErr = err, return ctx.Err() when the context is done, else i++, the loop
\* test, and (i > 0) the select with time.After(backoff)
AfterCall(r, err) ==
    LET c == [r EXCEPT !.calls = @ + 1, !.last = err,
                       !.nils = IF err = Nil THEN @ + 1 ELSE @]
    IN IF err = Nil THEN [c EXCEPT !.pc = "done", !.ret = Nil]
       ELSE IF r.ctx # Nil THEN [c EXCEPT !.pc = "done", !.ret = r.ctx, !.lastErr = err]
       ELSE IF LoopCond(r.i + 1, maxRetries)
            THEN [c EXCEPT !.pc = "wait", !.i = @ + 1, !.lastErr = err,
                           !.timer = backoff]
            ELSE [c EXCEPT !.pc = "done", !.i = @ + 1, !.lastErr = err, !.ret = err]

\* err := next(ctx, param): next returns nil (ok) or the error of this call
RetryCall(v, ok) ==
    /\ inv[v].pc = "call"
    /\ inv' = [inv EXCEPT ![v] =
                 AfterCall(inv[v], IF ok THEN Nil ELSE HandlerErr(inv[v].calls + 1))]
    /\ UNCHANGED <<retryMade, maxRetries, baseBackoff, backoff>>
    /\ UNCHANGED notRt

\* a select with the timer case only: a cancelled wait is waited out
RetryWaitIgnoresCancel(v) ==
    /\ inv[v].pc \in {"wait", "parked"}
    /\ inv[v].ctx # Nil
    /\ inv' = [inv EXCEPT ![v].pc = "store", ![v].timer = 0, ![v].tmp = backoff]
    /\ UNCHANGED <<retryMade, maxRetries, baseBackoff, backoff>>
    /\ UNCHANGED notRt

\* case <-ctx.Done(): return ctx.Err(). Either the select finds the context
\* done when it polls, or the invocation is parked in the select with its
\* timer pending when the context is cancelled, and the close of the Done
\* channel wakes it with this case
RetryWaitCancelled(v) ==
    /\ inv[v].pc \in {"wait", "parked"}
    /\ inv[v].ctx # Nil
    /\ inv' = [inv EXCEPT ![v] = Finish(v, inv[v].ctx)]
    /\ UNCHANGED <<retryMade, maxRetries, baseBackoff, backoff>>
    /\ UNCHANGED notRt

\* case <-time.After(backoff); backoff *= 2 reads backoff. Either the timer
\* fires while the invocation is parked in the select, the context not
\* cancelled; or the timer has expired by the time the select polls (the
\* goroutine was held up in between) and the select takes this case, which it
\* may also do when the context is done by then: of two ready cases Go picks
\* one at random. An invocation that was parked when its context was
\* cancelled has been woken with the other case
RetryWaitElapsed(v) ==
    /\ inv[v].pc = "wait"
    /\ inv' = [inv EXCEPT ![v].pc = "store", ![v].timer = 0, ![v].tmp = backoff]
    /\ UNCHANGED <<retryMade, maxRetries, baseBackoff, backoff>>
    /\ UNCHANGED notRt

\* backoff *= 2 writes the product (the variable is shared and not locked)
RetryDouble(v) ==
    /\ inv[v].pc = "store"
    /\ backoff' = inv[v].tmp * 2
    /\ inv' = [inv EXCEPT ![v].pc = "call", ![v].tmp = 0]
    /\ UNCHANGED <<retryMade, maxRetries, baseBackoff>>
    /\ UNCHANGED notRt

\* the owner of the invocation's context cancels it; an invocation at its
\* select is either parked in it by now (parked: the close of the Done channel
\* takes it out of the select, its timer counts no more), or has not polled it
\* yet
RetryCancel(v, parked) ==
    /\ retryMade
    /\ inv[v].pc # "done"
    /\ inv[v].ctx = Nil
    /\ parked => inv[v].pc = "wait"
    /\ inv' = [inv EXCEPT ![v].ctx = Canceled,
                          ![v].pc = IF parked THEN "parked" ELSE @,
                          ![v].timer = IF parked THEN 0 ELSE @]
    /\ UNCHANGED <<retryMade, maxRetries, baseBackoff, backoff>>
    /\ UNCHANGED notRt

\* ------------------------------------- the task closure of RegTask, trace.go
\* newLogWriter(logPath, logID): an error for an empty path or a zero id or
\* when the file cannot be opened (canOpen is what os.OpenFile does)
newLogWriter(logPath, logID, canOpen) ==
    IF ~logPath \/ logID = 0 THEN "err"
    ELSE IF canOpen THEN "open" ELSE "err"

\* the part of a line that a failed file.WriteString has left in the file,
\* without its newline
PartialLine(line) ==
    CASE line = "started" -> "started.."
      [] line = "handler" -> "handler.."
      [] line = "completed" -> "completed.."
      [] OTHER -> "failed.."

\* logWriter.Write on the invocation's writer: nothing when the writer is nil
\* or its file is nil; else file.WriteString appends the line, or it fails
\* and the error is dropped, with nothing of the line in the file or with a
\* part of it
WriteLog(line, err, part) ==
    IF writer # "open" THEN logLines
    ELSE IF err = "nil" THEN Append(logLines, line)
    ELSE IF part THEN Append(logLines, PartialLine(line))
    ELSE logLines

\* logWriter.Close: the file is nil afterwards
CloseLog == IF writer = "none" THEN "none" ELSE "closed"

\* fmt.Sprintf("FAIL: %v", err) / "SUCCESS"
ResultSuccessAlways(err) == <<"SUCCESS">>

ResultText(err) == IF err # "nil" THEN <<"FAIL: ", err>> ELSE <<"SUCCESS">>

\* the SDK calls the registered TaskFunc: the parameters are extracted, the
\* log writer is created and put into the context when a log path is
\* configured and the log id is positive
Dispatch(logPath, logID, kind, metricsOn, canOpen) ==
    /\ disp.pc = "idle"
    /\ disp' = [disp EXCEPT !.pc = "trace", !.logPath = logPath, !.logID = logID,
                            !.kind = kind, !.metrics = metricsOn]
    /\ writer' = IF logPath /\ logID > 0 /\ newLogWriter(logPath, logID, canOpen) = "open"
                 THEN "open" ELSE "none"
    /\ UNCHANGED <<hand, logLines, lastError>>
    /\ UNCHANGED notDp

\* executeTaskWithTrace up to the call of the handler: the "started" line
TraceStart(err, part) ==
    /\ disp.pc = "trace"
    /\ logLines' = WriteLog("started", err, part)
    /\ disp' = [disp EXCEPT !.pc = "handler"]
    /\ hand' = [hand EXCEPT !.st = "running"]
    /\ UNCHANGED <<writer, lastError>>
    /\ UNCHANGED notDp

\* the user handler writes a line through LogWriterFromContext(ctx)
HandlerWrite(err, part) ==
    /\ hand.st = "running"
    /\ disp.pc # "crashed"
    /\ hand.writes < MaxWrites
    /\ logLines' = WriteLog("handler", err, part)
    /\ hand' = [hand EXCEPT !.writes = @ + 1]
    /\ UNCHANGED <<disp, writer, lastError>>
    /\ UNCHANGED notDp

\* the user handler returns e: to executeTaskWithTrace directly or through
\* Recovery; under Timeout into errCh, from its own goroutine
HandlerReturn(e) ==
    /\ hand.st = "running"
    /\ disp.pc # "crashed"
    /\ hand' = [hand EXCEPT !.st = "returned", !.out = e]
    /\ IF disp.kind = "timeout" THEN UNCHANGED disp
       ELSE disp' = [disp EXCEPT !.pc = "finish", !.err = e]
    /\ UNCHANGED <<writer, logLines, lastError>>
    /\ UNCHANGED notDp

\* the user handler panics: the panic leaves executeTaskWithTrace, or Recovery
\* turns it into an error, or (under Timeout) it ends the handler's goroutine
\* and with it the process
HandlerPanic ==
    /\ hand.st = "running"
    /\ disp.pc # "crashed"
    /\ hand' = [hand EXCEPT !.st = "panicked"]
    /\ disp' = [disp EXCEPT
                  !.pc = CASE disp.kind = "plain" -> "panic"
                           [] disp.kind = "recovery" -> "finish"
                           [] OTHER -> "crashed",
                  !.err = IF disp.kind = "recovery" THEN "panicErr" ELSE @]
    /\ UNCHANGED <<writer, logLines, lastError>>
    /\ UNCHANGED notDp

\* Timeout's select, case err := <-errCh
DispatchSelectErr ==
    /\ disp.pc = "handler"
    /\ disp.kind = "timeout"
    /\ hand.st = "returned"
    /\ disp' = [disp EXCEPT !.pc = "finish", !.err = hand.out]
    /\ UNCHANGED <<hand, writer, logLines, lastError>>
    /\ UNCHANGED notDp

\* Timeout's select, case <-ctx.Done(): the deadline has fired, the handler's
\* goroutine is left running
DispatchSelectDone ==
    /\ disp.pc = "handler"
    /\ disp.kind = "timeout"
    /\ disp' = [disp EXCEPT !.pc = "finish", !.err = "DeadlineExceeded"]
    /\ UNCHANGED <<hand, writer, logLines, lastError>>
    /\ UNCHANGED notDp

\* executeTaskWithTrace after the handler: the metrics label, the terminal
\* line, the result text; the error returned is nil. werr is what the write
\* of the terminal line answered, which the function does not learn
TraceFinish(err, part) ==
    /\ disp.pc = "finish"
    /\ logLines' = WriteLog(IF disp.err # "nil" THEN "failed" ELSE "completed", err, part)
    /\ disp' = [disp EXCEPT
                  !.pc = "traced",
                  !.werr = IF writer = "open" THEN err ELSE "nil",
                  !.status = IF ~disp.metrics THEN "none"
                             ELSE IF disp.err # "nil" THEN "error" ELSE "success",
                  !.result = ResultText(disp.err),
                  !.retErr = "nil"]
    /\ UNCHANGED <<hand, writer, lastError>>
    /\ UNCHANGED notDp

\* the closure after executeTaskWithTrace: lastError is set when the error it
\* returned is not nil, the result is returned, the deferred Close runs
ClosureReturn ==
    /\ disp.pc = "traced"
    /\ lastError' = IF disp.retErr # "nil" THEN disp.retErr ELSE lastError
    /\ writer' = CloseLog
    /\ disp' = [disp EXCEPT !.pc = "done", !.outcome = "returned"]
    /\ UNCHANGED <<hand, logLines>>
    /\ UNCHANGED notDp

\* a closure whose Close is a plain statement after executeTaskWithTrace
ClosurePanicNoDefer ==
    /\ disp.pc = "panic"
    /\ disp' = [disp EXCEPT !.pc = "done", !.outcome = "panicked"]
    /\ UNCHANGED <<hand, writer, logLines, lastError>>
    /\ UNCHANGED notDp

\* a panic of the handler passes through the closure: the deferred Close runs
ClosurePanic ==
    /\ disp.pc = "panic"
    /\ writer' = CloseLog
    /\ disp' = [disp EXCEPT !.pc = "done", !.outcome = "panicked"]
    /\ UNCHANGED <<hand, logLines, lastError>>
    /\ UNCHANGED notDp

\* GetHealthStatus reads the executor in three steps, each under its own
\* lock, and other calls and task closures run in between. health.pc is "idle"
\* (no call yet), "lastError" or "count" (the read the call is at) or "done"
\* (the HealthStatus in health has been returned)
\* running and startedAt under runningMu
GetHealthStatusRunning ==
    /\ health.pc \in {"idle", "done"}
    /\ health' = [NoHealth EXCEPT !.pc = "lastError", !.Running = running,
                                  !.StartedAt = startedAt]
    /\ UNCHANGED notHs

\* lastError under lastErrorMu
GetHealthStatusLastError ==
    /\ health.pc = "lastError"
    /\ health' = [health EXCEPT !.pc = "count", !.LastError = lastError]
    /\ UNCHANGED notHs

\* TaskCount: e.registry.Count(), under the registry's lock; the return
GetHealthStatusCount ==
    /\ health.pc = "count"
    /\ health' = [health EXCEPT !.pc = "done", !.TaskCount = Count(tasks)]
    /\ UNCHANGED notHs

\* ------------------------------------------------------- log.go, logWriter
HasSuffix(str, c) == Len(str) > 0 /\ str[Len(str)] = c

Newlines(str) == Len(SelectSeq(str, LAMBDA c : c = NL))

\* logLine := fmt.Sprintf("[%s] %s\n", time.Now().Format(...), content)
WriteBytes(content) == <<"T">> \o content \o <<NL>>

\* if !strings.HasSuffix(line, "\n") { line += "\n" }
WriteLineBytes(line) == IF ~HasSuffix(line, NL) THEN line \o <<NL>> ELSE line

Returned(p, err, werr, bytes) ==
    hist' = Append(hist, [op |-> wp[p].op, ret |-> err, line |-> wp[p].line,
                          werr |-> werr, wrote |-> bytes, late |-> wp[p].late])

Issued == Len(hist) + Cardinality({p \in Procs : wp[p].pc # "idle"})

\* a call of Write, WriteLine or Close up to its test of w.file, which is
\* made before the lock is taken: the call returns when the file is nil
WriterCall(p, op, bytes) ==
    /\ wp[p].pc = "idle"
    /\ Issued < MaxCalls
    /\ IF wFile = "nil"
       THEN /\ hist' = Append(hist, [op |-> op, ret |-> "nil", line |-> bytes,
                                     werr |-> "nil", wrote |-> <<>>, late |-> TRUE])
            /\ UNCHANGED wp
       ELSE /\ wp' = [wp EXCEPT ![p] = [pc |-> "lock", op |-> op, line |-> bytes,
                                        pending |-> bytes, late |-> FALSE]]
            /\ UNCHANGED hist
    /\ UNCHANGED <<wFile, wMu, fileBytes>>
    /\ UNCHANGED notLw

\* a Close without the test of w.file
CloseUnchecked(p) ==
    /\ wp[p].pc = "idle"
    /\ Issued < MaxCalls
    /\ wp' = [wp EXCEPT ![p] = [pc |-> "lock", op |-> "Close", line |-> <<>>,
                                 pending |-> <<>>, late |-> wFile = "nil"]]
    /\ UNCHANGED <<wFile, wMu, fileBytes, hist>>
    /\ UNCHANGED notLw

CallWrite(p, content) == WriterCall(p, "Write", WriteBytes(content))

CallWriteLine(p, line) == WriterCall(p, "WriteLine", WriteLineBytes(line))

CallClose(p) == WriterCall(p, "Close", <<>>)

\* a Lock that does not wait
LockFree(p) ==
    /\ wp[p].pc = "lock"
    /\ wp[p].op # "Close"
    /\ IF wFile = "nil"
       THEN /\ wp' = [wp EXCEPT ![p] = NoWrite]
            /\ Returned(p, "nil", "ErrInvalid", <<>>)
       ELSE /\ wp' = [wp EXCEPT ![p].pc = "write"]
            /\ UNCHANGED hist
    /\ UNCHANGED <<wFile, wMu, fileBytes>>
    /\ UNCHANGED notLw

\* w.mu.Lock() of Write and WriteLine, and the start of file.WriteString: on
\* a file that is nil by now it returns os.ErrInvalid and the call returns
Lock(p) ==
    /\ wp[p].pc = "lock"
    /\ wp[p].op # "Close"
    /\ wMu = 0
    /\ IF wFile = "nil"
       THEN /\ wp' = [wp EXCEPT ![p] = NoWrite]
            /\ Returned(p, "nil", "ErrInvalid", <<>>)
            /\ UNCHANGED wMu
       ELSE /\ wp' = [wp EXCEPT ![p].pc = "write"]
            /\ wMu' = p
            /\ UNCHANGED hist
    /\ UNCHANGED <<wFile, fileBytes>>
    /\ UNCHANGED notLw

\* file.WriteString(line) writes the next byte of the line; after the last
\* one file.Sync(), the deferred Unlock and the return. Or it fails, before
\* the first byte or after some of them: the error is dropped and the call
\* returns, with the deferred Unlock, leaving in the file what it has written
WriteString(p, err) ==
    /\ wp[p].pc = "write"
    /\ IF err # "nil"
       THEN /\ wp' = [wp EXCEPT ![p] = NoWrite]
            /\ wMu' = IF wMu = p THEN 0 ELSE wMu
            /\ Returned(p, "nil", err,
                        SubSeq(wp[p].line, 1, Len(wp[p].line) - Len(wp[p].pending)))
            /\ UNCHANGED fileBytes
       ELSE /\ fileBytes' = Append(fileBytes, Head(wp[p].pending))
            /\ IF Len(wp[p].pending) > 1
               THEN /\ wp' = [wp EXCEPT ![p].pending = Tail(@)]
                    /\ UNCHANGED <<wMu, hist>>
               ELSE /\ wp' = [wp EXCEPT ![p] = NoWrite]
                    /\ wMu' = IF wMu = p THEN 0 ELSE wMu
                    /\ Returned(p, "nil", "nil", wp[p].line)
    /\ UNCHANGED wFile
    /\ UNCHANGED notLw

\* Close under the lock: file.Sync(), err := file.Close(), file = nil. On a
\* file that is nil by now both return os.ErrInvalid; closeErr is what the
\* operating system answers to the close of an open file
CloseLocked(p, closeErr) ==
    /\ wp[p].pc = "lock"
    /\ wp[p].op = "Close"
    /\ wMu = 0
    /\ wFile' = "nil"
    /\ wp' = [wp EXCEPT ![p] = NoWrite]
    /\ Returned(p, IF wFile = "nil" THEN "ErrInvalid" ELSE closeErr, "nil", <<>>)
    /\ UNCHANGED <<wMu, fileBytes>>
    /\ UNCHANGED notLw

\* ----------------------------------------- log.go, readLogFileWithPagination
defaultLogPageSize == 1000
maxLogFileSize == 10 * 1024 * 1024
\* scanner.Buffer(buf, 1024*1024)
maxTokenSize == 1024 * 1024

\* bufio.ScanLines: a line ends at a newline or at the end of the input, a
\* carriage return at its end is dropped, an empty rest is no line
dropCR(line) == IF HasSuffix(line, CR) THEN SubSeq(line, 1, Len(line) - 1) ELSE line

RECURSIVE ScanLinesFrom(_, _, _)
ScanLinesFrom(bytes, line, started) ==
    IF bytes = <<>> THEN (IF started THEN <<dropCR(line)>> ELSE <<>>)
    ELSE IF Head(bytes) = NL
         THEN <<dropCR(line)>> \o ScanLinesFrom(Tail(bytes), <<>>, FALSE)
         ELSE ScanLinesFrom(Tail(bytes), Append(line, Head(bytes)), TRUE)

ScanLines(bytes) == ScanLinesFrom(bytes, <<>>, FALSE)

\* the bytes the scanner has to hold in its buffer to find each of these
\* lines: those before the newline, a carriage return included
RECURSIVE TokenLens(_, _, _)
TokenLens(bytes, n, started) ==
    IF bytes = <<>> THEN (IF started THEN <<n>> ELSE <<>>)
    ELSE IF Head(bytes) = NL
         THEN <<n>> \o TokenLens(Tail(bytes), 0, FALSE)
         ELSE TokenLens(Tail(bytes), n + 1, TRUE)

\* strings.Join(lines, "\n")
RECURSIVE Join(_)
Join(lines) ==
    IF lines = <<>> THEN <<>>
    ELSE IF Len(lines) = 1 THEN lines[1]
    ELSE lines[1] \o <<NL>> \o Join(Tail(lines))

ContentNoTerminator(lines) == Join(lines)

\* content := strings.Join(lines, "\n"); if len(lines) > 0 { content += "\n" }
Content(lines) == IF Len(lines) > 0 THEN Join(lines) \o <<NL>> ELSE Join(lines)

\* for scanner.Scan() { ... }: st is lines, lineIndex and toLineNum, and the
\* scanner's error. Scan returns false with ErrTooLong when its buffer of
\* maxToken bytes is full and holds no newline
RECURSIVE ScanLoop(_, _, _, _, _, _)
ScanLoop(all, lens, maxToken, st, startLineIndex, pageSize) ==
    IF st.lineIndex + 1 >= Len(all) THEN st
    ELSE LET lineIndex == st.lineIndex + 1 IN
         IF lens[lineIndex + 1] >= maxToken
         THEN [st EXCEPT !.err = "bufio.Scanner: token too long"]
         ELSE IF lineIndex < startLineIndex
         THEN ScanLoop(all, lens, maxToken, [st EXCEPT !.lineIndex = lineIndex],
                       startLineIndex, pageSize)
         ELSE LET nx == [st EXCEPT !.lines = Append(st.lines, all[lineIndex + 1]),
                                   !.lineIndex = lineIndex, !.toLineNum = lineIndex]
              IN IF Len(nx.lines) >= pageSize THEN nx
                 ELSE ScanLoop(all, lens, maxToken, nx, startLineIndex, pageSize)

EmptyToLineNumRaw(fromLineNum) == fromLineNum

\* toLineNum := fromLineNum; if toLineNum < 0 { toLineNum = 0 }
EmptyToLineNum(fromLineNum) == IF fromLineNum < 0 THEN 0 ELSE fromLineNum

PastEndNever(startLineIndex, lineIndex) == FALSE

\* if startLineIndex > lineIndex
PastEnd(startLineIndex, lineIndex) == startLineIndex > lineIndex

\* if forcePagination && pageSize <= 0 { pageSize = defaultLogPageSize }
\* if pageSize <= 0 { pageSize = defaultLogPageSize }
PageSize(pageSize0, forcePagination, defaultPage) ==
    LET forced == IF forcePagination /\ pageSize0 <= 0 THEN defaultPage ELSE pageSize0
    IN IF forced <= 0 THEN defaultPage ELSE forced

\* the function with its three constants as arguments; osErr is what the
\* operating system does to the calls the function makes
readLog(file, fromLineNum, pageSize0, maxSize, defaultPage, maxToken, osErr) ==
    IF file = NoFile THEN [err |-> "log file not found"]
    ELSE IF osErr = "stat" THEN [err |-> "failed to stat log file"]
    ELSE IF Len(file) = 0
    THEN [err |-> "nil", Content |-> <<>>,
          ToLineNum |-> EmptyToLineNum(fromLineNum), IsEnd |-> TRUE]
    ELSE IF osErr = "open" THEN [err |-> "failed to open log file"]
    ELSE
    LET forcePagination == Len(file) > maxSize
        pageSize == PageSize(pageSize0, forcePagination, defaultPage)
        startLineIndex == IF fromLineNum < 0 THEN 0 ELSE fromLineNum
        st0 == [lines |-> <<>>, lineIndex |-> 0 - 1, toLineNum |-> startLineIndex,
                err |-> "nil"]
        st == IF osErr = "read" THEN [st0 EXCEPT !.err = "read failed"]
              ELSE ScanLoop(ScanLines(file), TokenLens(file, 0, FALSE), maxToken, st0,
                            startLineIndex, pageSize)
        isEnd == Len(st.lines) < pageSize
    IN IF st.err # "nil" THEN [err |-> "failed to scan log file"]
       ELSE IF PastEnd(startLineIndex, st.lineIndex)
       THEN [err |-> "nil", Content |-> <<>>,
             ToLineNum |-> IF st.lineIndex < 0 THEN 0 ELSE st.lineIndex, IsEnd |-> TRUE]
       ELSE [err |-> "nil", Content |-> Content(st.lines),
             ToLineNum |-> st.toLineNum, IsEnd |-> isEnd]

readLogFileWithPagination(file, fromLineNum, pageSize, osErr) ==
    readLog(file, fromLineNum, pageSize, maxLogFileSize, defaultLogPageSize, maxTokenSize,
            osErr)

\* a read with the size threshold, the default page size and the token limit
\* scaled down
ReadLogScaled(file, fromLineNum, pageSize, osErr) ==
    /\ rd' = [file |-> file, from |-> fromLineNum, page |-> pageSize, os |-> osErr,
              res |-> readLog(file, fromLineNum, pageSize, ScaledMaxSize, ScaledPageSize,
                              ScaledMaxToken, osErr)]
    /\ UNCHANGED notRd

ReadLog(file, fromLineNum, pageSize, osErr) ==
    /\ rd' = [file |-> file, from |-> fromLineNum, page |-> pageSize, os |-> osErr,
              res |-> readLogFileWithPagination(file, fromLineNum, pageSize, osErr)]
    /\ UNCHANGED notRd

\* ------------------------------------------------- log.go, handleLogRequest
\* fmt.Sprintf("jobhandler-%d.log", logID) and filepath.Join(logPath, ...), in
\* newLogWriter and in handleLogRequest
LogFileName(logID) == <<"jobhandler-", logID, ".log">>
LogFilePath(logPath, logID) == <<logPath>> \o LogFileName(logID)

\* readLogFileWithPagination on the directory
ReadFile(files, path, fromLineNum, pageSize, osErr) ==
    readLogFileWithPagination(IF path \in DOMAIN files THEN files[path] ELSE NoFile,
                              fromLineNum, pageSize, osErr)

LogResNoEcho(req, readResult) ==
    [Code |-> 200, Msg |-> "success", FromLineNum |-> readResult.ToLineNum,
     ToLineNum |-> readResult.ToLineNum, LogContent |-> readResult.Content, IsEnd |-> readResult.IsEnd]

LogRes(req, readResult) ==
    [Code |-> 200, Msg |-> "success", FromLineNum |-> req.FromLineNum,
     ToLineNum |-> readResult.ToLineNum, LogContent |-> readResult.Content, IsEnd |-> readResult.IsEnd]

handleLogRequest(req, logPath, files, osErr) ==
    IF req.isNil THEN [Code |-> 500, Msg |-> "log request is nil"]
    ELSE IF logPath = "" THEN [Code |-> 500, Msg |-> "log path not configured"]
    ELSE LET logFilePath == LogFilePath(logPath, req.LogID) IN
         IF logFilePath \notin DOMAIN files
         THEN [Code |-> 500, Msg |-> "log file not found"]
         ELSE LET readResult == ReadFile(files, logFilePath, req.FromLineNum,
                                     defaultLogPageSize, osErr)
              IN IF readResult.err # "nil"
                 THEN [Code |-> 500, Msg |-> "failed to read log file"]
                 ELSE LogRes(req, readResult)

\* the scheduler asks for a log
HandleLog(req, logPath, osErr) ==
    /\ lq' = [req |-> req, logPath |-> logPath, os |-> osErr, files |-> fs,
              res |-> handleLogRequest(req, logPath, fs, osErr)]
    /\ UNCHANGED <<fs, tail, wr, appends>>
    /\ UNCHANGED notLq

\* newLogWriter opens the file of invocation 1, creating it when absent
OpenLogFile ==
    /\ LogFilePath("logs", 1) \notin DOMAIN fs
    /\ fs' = Put(fs, LogFilePath("logs", 1), <<>>)
    /\ UNCHANGED <<lq, tail, wr, appends>>
    /\ UNCHANGED notLq

\* the invocation's writer appends a line to its file with file.WriteString.
\* The write is not one step for a reader of the file: the first k bytes are
\* in the file, the others follow, or never do when the write fails here
AppendLine(bytes, k, err) ==
    /\ LogFilePath("logs", 1) \in DOMAIN fs
    /\ wr = <<>>
    /\ appends < MaxAppends
    /\ appends' = appends + 1
    /\ err # "nil" => k < Len(bytes)
    /\ fs' = [fs EXCEPT ![LogFilePath("logs", 1)] = @ \o SubSeq(bytes, 1, k)]
    /\ wr' = IF err # "nil" THEN <<>> ELSE SubSeq(bytes, k + 1, Len(bytes))
    /\ tail' = [tail EXCEPT !.caughtUp = FALSE]
    /\ UNCHANGED lq
    /\ UNCHANGED notLq

\* k more bytes of the write in progress reach the file; the write goes on,
\* or fails here and the rest of the line never follows
AppendMore(k, err) ==
    /\ wr # <<>>
    /\ err # "nil" => k < Len(wr)
    /\ fs' = [fs EXCEPT ![LogFilePath("logs", 1)] = @ \o SubSeq(wr, 1, k)]
    /\ wr' = IF err # "nil" THEN <<>> ELSE SubSeq(wr, k + 1, Len(wr))
    /\ UNCHANGED appends
    /\ tail' = [tail EXCEPT !.caughtUp = FALSE]
    /\ UNCHANGED lq
    /\ UNCHANGED notLq

\* the client asks for the lines from its line number on and continues after
\* the last line number of the answer
TailRead ==
    LET res == handleLogRequest([LogID |-> 1, FromLineNum |-> tail.from, isNil |-> FALSE],
                                "logs", fs, "nil")
    IN /\ tail.from <= MaxAppends
       /\ res.Code = 200
       /\ tail' = [from |-> res.ToLineNum + 1, got |-> tail.got \o res.LogContent,
                   caughtUp |-> TRUE]
       /\ UNCHANGED <<fs, lq, wr, appends>>
       /\ UNCHANGED notLq

\* --------------------------------------------------- log.go, cleanupOldLogs
\* an entry appears in the directory, last modified at some day up to now
CreateEntry(name, isDir, mtime) ==
    /\ name \notin DOMAIN logDir
    /\ mtime <= now
    /\ logDir' = Put(logDir, name, [isDir |-> isDir, mtime |-> mtime])
    /\ UNCHANGED <<now, swept, notCu>>

\* an invocation appends to its log file
TouchEntry(name) ==
    /\ name \in DOMAIN logDir
    /\ ~logDir[name].isDir
    /\ logDir[name].mtime < now
    /\ logDir' = [logDir EXCEPT ![name].mtime = now]
    /\ UNCHANGED <<now, swept, notCu>>

\* strings.HasPrefix(name, "jobhandler-") && strings.HasSuffix(name, ".log")
MatchesPattern(name) == name[1] = "jobhandler-" /\ name[Len(name)] = ".log"

\* os.Remove failed: the warning is logged and the loop goes on
AfterRemoveError(i) == i + 1

\* the loop over the entries ReadDir returned (in the order of their names),
\* from the i-th on, up to the first that is not a directory and has the
\* managed name: the index of that entry, Len(DirOrder) + 1 when there is none
RECURSIVE NextCandidate(_, _)
NextCandidate(i, entries) ==
    IF i > Len(DirOrder) THEN i
    ELSE LET name == DirOrder[i]
         IN IF name \notin DOMAIN entries THEN NextCandidate(i + 1, entries)
            ELSE IF entries[name].isDir THEN NextCandidate(i + 1, entries)
            ELSE IF ~MatchesPattern(name) THEN NextCandidate(i + 1, entries)
            ELSE i

\* cleanupOldLogs(logPath, retentionDays) is a sequence of system calls on a
\* directory that invocations write to meanwhile. swept is the call in
\* progress: pc "info" (in the loop, before entry.Info() of the next
\* candidate) or "remove" (before os.Remove of entry i), d, cutoff
\* (cutoffTime), entries (what os.ReadDir returned) and i (the loop's index).
\* The call up to os.ReadDir; readDirOk is whether ReadDir succeeds
cleanupOldLogs(logPath, retentionDays, readDirOk) ==
    /\ swept.pc = "idle"
    /\ swept' = IF logPath = "" \/ retentionDays <= 0 THEN NoSweep
                ELSE IF ~readDirOk THEN NoSweep
                ELSE [pc |-> "info", d |-> retentionDays, cutoff |-> now - retentionDays,
                      entries |-> logDir, i |-> 1]
    /\ UNCHANGED <<now, logDir, notCu>>

\* the loop up to the test of the next candidate's ModTime, or to its end and
\* the return; infoErr is whether entry.Info() fails
cleanupInfo(infoErr) ==
    /\ swept.pc = "info"
    /\ LET j == NextCandidate(swept.i, swept.entries)
       IN swept' = IF j > Len(DirOrder) THEN NoSweep
                   ELSE IF infoErr \/ DirOrder[j] \notin DOMAIN logDir
                        THEN [swept EXCEPT !.i = j + 1]
                   ELSE IF logDir[DirOrder[j]].mtime < swept.cutoff
                        THEN [swept EXCEPT !.pc = "remove", !.i = j]
                   ELSE [swept EXCEPT !.i = j + 1]
    /\ UNCHANGED <<now, logDir, notCu>>

\* os.Remove(filePath) of the entry whose ModTime was before the cutoff;
\* removeErr is whether it fails
cleanupRemove(removeErr) ==
    /\ swept.pc = "remove"
    /\ LET name == DirOrder[swept.i]
       IN IF removeErr \/ name \notin DOMAIN logDir
          THEN /\ logDir' = logDir
               /\ swept' = [swept EXCEPT !.pc = "info", !.i = AfterRemoveError(swept.i)]
          ELSE /\ logDir' = [n \in DOMAIN logDir \ {name} |-> logDir[n]]
               /\ swept' = [swept EXCEPT !.pc = "info", !.i = swept.i + 1]
    /\ UNCHANGED <<now, notCu>>

\* --------------------------------------------------------------------- Init
Init ==
    /\ now = 1
    /\ tasks = NoTasks
    /\ ret = NoRet
    /\ built = FALSE
    /\ middlewares = <<>>
    /\ running = FALSE
    /\ startedAt = 0
    /\ sdkTasks = NoTasks
    /\ sdk = "init"
    /\ proc = [p \in Procs |-> Idle]
    /\ xret = NoCall
    /\ runCalled = FALSE
    /\ runsAccepted = 0
    /\ chMws = <<>>
    /\ chHandler = NilHandler
    /\ gor = <<>>
    /\ errCh = NoTasks
    /\ ctxErr = NoTasks
    /\ events = <<>>
    /\ hOut = "none"
    /\ hCtx = "nil"
    /\ selReady = NoTasks
    /\ result = "none"
    /\ crashed = FALSE
    /\ retryMade = FALSE
    /\ maxRetries = 0
    /\ baseBackoff = 0
    /\ backoff = 0
    /\ inv = [v \in Invs |-> NotInvoked]
    /\ disp = NotDispatched
    /\ hand = NotCalled
    /\ writer = "none"
    /\ logLines = <<>>
    /\ lastError = "nil"
    /\ wFile = "open"
    /\ wMu = 0
    /\ fileBytes = <<>>
    /\ wp = [p \in Procs |-> NoWrite]
    /\ hist = <<>>
    /\ rd = NoRead
    /\ fs = NoTasks
    /\ lq = NoQuery
    /\ tail = NotFollowing
    /\ wr = <<>>
    /\ appends = 0
    /\ logDir = NoTasks
    /\ swept = NoSweep
    /\ heap = <<>>
    /\ regPtr = NoTasks
    /\ snap = [taken |-> FALSE, m |-> NoTasks]
    /\ snapOp = "registry"
    /\ bMws = <<>>
    /\ health = NoHealth

\* ------------------------------------------------------------ SpecRegistry
NextRegistry ==
    \/ \E name \in Names, handler \in UserHandlers \cup {NilHandler} :
           CallRegister(name, handler)
    \/ \E name \in Names : CallUnregister(name)
    \/ CallClear
    \/ Tick

SpecRegistry == Init /\ [][NextRegistry]_vars

\* C1: Register returns an error exactly when the name is empty, the handler is
\* nil or the name is already registered; a failing call leaves the registry as
\* it was (a duplicate keeps the first handler and registration time); a
\* successful call adds exactly the one entry (name, handler, time of the call).
C1_RegisterContract ==
    ret.op = "Register" =>
        /\ ret.err # "nil" <=>
               (ret.name = "" \/ ret.handler = NilHandler \/ ret.name \in DOMAIN ret.pre)
        /\ ret.err # "nil" => tasks = ret.pre
        /\ ret.err = "nil" =>
               /\ DOMAIN tasks = DOMAIN ret.pre \cup {ret.name}
               /\ tasks[ret.name] = TaskInfo(ret.name, ret.handler, ret.at)
               /\ \A n \in DOMAIN ret.pre : tasks[n] = ret.pre[n]

\* a second Register of an existing name, with another handler at a later time,
\* has failed and the first entry is still there
C1_Witness ==
    /\ ret.op = "Register"
    /\ ret.err = "task already registered"
    /\ tasks[ret.name].Handler # ret.handler
    /\ tasks[ret.name].RegisteredAt < ret.at
\* ------------------------------------------------------------ SpecExecutor
NextExecutor ==
    \/ \E mws \in OptsChoices : NewExecutorWithOptions(mws)
    \/ \E p \in Procs, n \in TaskNames, h \in {NilHandler, <<"h1">>} : RegTaskCheck(p, n, h)
    \/ \E p \in Procs : RegTaskWrap(p)
    \/ \E p \in Procs : RegTaskRegister(p)
    \/ \E p \in Procs : RegTaskSdk(p)
    \/ \E p \in Procs : RunGate(p)
    \/ \E p \in Procs : RunSdk(p)
    \/ \E p \in Procs, err \in {"nil", "listen failed"} : RunReturn(p, err)
    \/ \E p \in Procs : Stop(p)
    \/ Tick

SpecExecutor == Init /\ [][NextExecutor]_vars

\* ------------------------------------------------------------- SpecHealth
\* a GetHealthStatus call next to the other calls of the executor
NextHealth ==
    \/ NextExecutor
    \/ GetHealthStatusRunning
    \/ GetHealthStatusLastError
    \/ GetHealthStatusCount

SpecHealth == Init /\ [][NextHealth]_vars

\* C2: while the runtime state is Running no task is added to the registry or
\* to the SDK executor: no step taken from a Running state changes either.
C2_NoRegistrationWhileRunning ==
    [][running => (tasks' = tasks /\ sdkTasks' = sdkTasks)]_vars

\* the step is goroutine p's call of op returning at once with xret'
Returns(p, op) ==
    /\ proc[p].pc = "idle"
    /\ xret' # xret
    /\ xret'.p = p /\ xret'.op = op

RunStep(p) ==
    \/ proc[p].pc = "idle" /\ proc'[p].pc = "run_start"
    \/ Returns(p, "Run")

StopStep(p) == Returns(p, "Stop")

\* C3: the state starts Stopped; Run on Stopped sets Running and records the
\* start time; Run on Running fails and changes neither; of the Run calls made
\* with no Stop call in between exactly one goes on to start the SDK executor;
\* Stop on Running sets Stopped and stops the SDK executor; Stop on Stopped
\* returns nil, changes nothing and does not call the SDK executor's Stop.
C3_RunStopStateMachine ==
    /\ ~running
    /\ [](runsAccepted <= 1 /\ (runCalled => runsAccepted = 1))
    /\ [][\A p \in Procs :
            /\ (RunStep(p) /\ ~running) =>
                   /\ running' /\ startedAt' = now
                   /\ proc'[p].pc = "run_start"
            /\ (RunStep(p) /\ running) =>
                   /\ proc'[p].pc = "idle" /\ xret'.err # "nil"
                   /\ running' /\ startedAt' = startedAt /\ sdk' = sdk
            /\ (StopStep(p) /\ running) =>
                   /\ ~running' /\ sdk' = "stopped"
                   /\ xret'.err = "nil"
            /\ (StopStep(p) /\ ~running) =>
                   /\ xret'.err = "nil"
                   /\ UNCHANGED <<running, startedAt, sdk, tasks, sdkTasks>>
            /\ (proc[p].pc # "run_start" /\ proc'[p].pc = "run_start") => RunStep(p)
            /\ (proc[p].pc # "run_sdk" /\ proc'[p].pc = "run_sdk") =>
                   proc[p].pc = "run_start"
       ]_vars
\* a second Run was rejected while the first is inside the SDK executor's Run,
\* and the start time is still the first one's
C3_Witness ==
    /\ running /\ runsAccepted = 1
    /\ xret.op = "Run" /\ xret.err = "executor already running"
    /\ \E p \in Procs : proc[p].pc = "run_sdk" /\ xret.p # p
    /\ startedAt < now

\* --------------------------------------------------------------- SpecChain
Goroutines == 1..(MaxMws + 1)

NextChain ==
    \/ \E mws \in MwLists : Invoke(mws, <<"h1">>)
    \/ \E g \in Goroutines : LogEnter(g)
    \/ \E g \in Goroutines : LogReturn(g)
    \/ \E g \in Goroutines : LogPanic(g)
    \/ \E g \in Goroutines : RecoveryEnter(g)
    \/ \E g \in Goroutines : RecoveryReturn(g)
    \/ \E g \in Goroutines : RecoveryPanic(g)
    \/ \E g \in Goroutines : TimeoutEnter(g)
    \/ \E g \in Goroutines : TimeoutSelectErr(g)
    \/ \E g \in Goroutines : TimeoutSelectDone(g)
    \/ \E g \in Goroutines : TimeoutSend(g)
    \/ \E d \in 1..MaxMws : DeadlineFires(d)
    \/ ParentCancel
    \/ \E g \in Goroutines : HandlerCall(g)
    \/ \E g \in Goroutines, out \in ReturnValues : HandlerReturns(g, out)
    \/ \E g \in Goroutines, v \in PanicValues : HandlerPanics(g, v)
    \/ \E g \in Goroutines : CallerReturn(g)
    \/ \E g \in Goroutines : CallerPanic(g)
    \/ \E g \in Goroutines : GoroutinePanic(g)

SpecChain == Init /\ [][NextChain]_vars
OnlyLogMws == \A i \in 1..Len(chMws) : chMws[i] \in LogMws

Expected(mws, h) ==
    [i \in 1..Len(mws) |-> <<"pre", mws[i]>>]
    \o <<<<"call", h>>>>
    \o [i \in 1..Len(mws) |-> <<"post", mws[Len(mws) + 1 - i]>>]

\* C4: the handler built from middlewares m1..mn and h runs the parts before
\* the call in the order m1..mn, then h, then the parts after the call in the
\* order mn..m1; with no middleware the handler built is h itself.
C4_ChainOrder ==
    /\ (gor # <<>> /\ chMws = <<>>) => chHandler = <<"h1">>
    /\ (OnlyLogMws /\ result \in ReturnValues) => events = Expected(chMws, "h1")

C4_Witness ==
    /\ chMws = <<"mA", "mB">>
    /\ result = "errH"
    /\ events = <<<<"pre", "mA">>, <<"pre", "mB">>, <<"call", "h1">>,
                  <<"post", "mB">>, <<"post", "mA">>>>

\* C5: a handler wrapped directly by Recovery: when it panics the call returns
\* a non-nil error (the panic value when that is an error, else an error
\* describing it) and the caller sees no panic; when it returns, its result is
\* passed through.
C5_Recovery ==
    chMws = <<"recovery">> =>
        /\ result # "PANIC" /\ ~crashed
        /\ (gor[1].mode = "exit" /\ hOut \in ReturnValues) => result = hOut
        /\ (gor[1].mode = "exit" /\ hOut \in PanicValues) =>
               /\ result # "nil"
               /\ hOut = "pErr" => result = "pErr"
               /\ hOut = "pStr" => result = "panicError(pStr)"
               /\ hOut = "pNil" => result = "PanicNilError"

C5_Witness ==
    /\ chMws = <<"recovery">>
    /\ hOut = "pStr"
    /\ result = "panicError(pStr)"

\* C6: with Recovery outermost in a chain that also holds Timeout, a panic of
\* the handler becomes an error result: the caller sees no panic and the
\* process does not die.
C6_RecoveryOutermostCatches ==
    (/\ Len(chMws) >= 2 /\ chMws[1] = "recovery"
     /\ \E i \in 2..Len(chMws) : chMws[i] = "timeout"
     /\ hOut \in PanicValues) => (~crashed /\ result # "PANIC")

\* C7 as claimed: under Timeout alone, a handler that had not completed when
\* the deadline fired gets the deadline error, and a handler that completed
\* before the deadline and before any cancellation gets its own result.
C7_TimeoutRace ==
    (chMws = <<"timeout">> /\ result # "none") =>
        /\ (ctxErr[1] = "DeadlineExceeded" /\ (hOut = "none" \/ hCtx = "DeadlineExceeded"))
               => result = "DeadlineExceeded"
        /\ (hOut \in ReturnValues /\ hCtx = "nil") => result = hOut

\* C7 as amended: once the context is done the waiting call can return without
\* the handler; what it returns is decided by the select cases that are ready
\* when the select proceeds: the context's error when only ctx.Done() is, the
\* handler's result when only errCh is, one of the two when both are.
C7_TimeoutSelect ==
    chMws = <<"timeout">> =>
        /\ (~crashed /\ gor[1].mode = "select" /\ ctxErr[1] # "nil")
               => ENABLED TimeoutSelectDone(1)
        /\ result # "none" =>
               /\ selReady[1] = {"ctx.Done"} => result = ctxErr[1]
               /\ selReady[1] = {"errCh"} => result = hOut
               /\ result \in {ctxErr[1], hOut}

\* the deadline fired, and the call has returned the deadline error while the
\* handler is still running
C7_Witness ==
    /\ chMws = <<"timeout">>
    /\ result = "DeadlineExceeded"
    /\ hOut = "none"
    /\ gor[2].mode = "running"

\* C8: a goroutine started by Timeout whose handler has returned can always
\* send its result and end, whether or not the Timeout call is still waiting;
\* a result once returned to the caller never changes.
C8_LateResultDiscarded ==
    /\ [](\A g \in DOMAIN gor :
            (~crashed /\ g > 1 /\ gor[g].mode = "return" /\ ~InFrame(g))
                => ENABLED TimeoutSend(g))
    /\ [][result # "none" => result' = result]_vars

\* the call returned the deadline error, the handler returned later, and its
\* goroutine has ended leaving the result in the buffer
C8_Witness ==
    /\ chMws = <<"timeout">>
    /\ result = "DeadlineExceeded"
    /\ gor[2].mode = "exit"
    /\ errCh[1] = <<"errH">>
\* --------------------------------------------------------------- SpecRetry
NextRetry ==
    \/ \E n \in RetryCounts, b \in Backoffs : RetryMiddleware(n, b)
    \/ \E v \in Invs : RetryInvoke(v)
    \/ \E v \in Invs, ok \in BOOLEAN : RetryCall(v, ok)
    \/ \E v \in Invs : RetryWaitCancelled(v)
    \/ \E v \in Invs : RetryWaitElapsed(v)
    \/ \E v \in Invs : RetryDouble(v)
    \/ \E v \in Invs, parked \in BOOLEAN : RetryCancel(v, parked)

SpecRetry == Init /\ [][NextRetry]_vars

\* C9: with maxRetries = n >= 0 and a context never cancelled, next is called
\* until its first nil result or n + 1 calls: nothing is called after a nil
\* result and the call returns nil; when all n + 1 calls fail the call returns
\* the error of the last one.
C9_RetryAttempts ==
    \A v \in Invs :
        (maxRetries >= 0 /\ inv[v].ctx = Nil) =>
            /\ inv[v].calls <= maxRetries + 1
            /\ inv[v].nils <= 1
            /\ inv[v].nils = 1 => (inv[v].pc = "done" /\ inv[v].last = Nil)
            /\ inv[v].pc = "done" =>
                   /\ inv[v].calls >= 1
                   /\ inv[v].ret = inv[v].last
                   /\ inv[v].ret # Nil =>
                          /\ inv[v].calls = maxRetries + 1
                          /\ inv[v].ret = HandlerErr(maxRetries + 1)

\* Retry(2, b) around a handler that always fails: three calls, the third
\* error returned
C9_Witness ==
    \E v \in Invs :
        /\ maxRetries = 2
        /\ inv[v].pc = "done" /\ inv[v].ctx = Nil
        /\ inv[v].calls = 3 /\ inv[v].i = 3
        /\ inv[v].ret = HandlerErr(3)

RECURSIVE Pow2(_)
Pow2(k) == IF k = 0 THEN 1 ELSE 2 * Pow2(k - 1)

\* C10: in every invocation the wait before the k-th retry is b * 2^(k-1):
\* an invocation waiting before its retry i waits that long.
C10_BackoffRestartsAtBase ==
    \A v \in Invs :
        inv[v].pc = "wait" =>
            inv[v].timer = baseBackoff * Pow2(inv[v].i - 1)

\* C11: the handler is never invoked for an attempt that starts when the
\* context is already done.
C11_NoAttemptWhenDone ==
    [][\A v \in Invs : inv'[v].calls > inv[v].calls => inv[v].ctx = Nil]_vars

\* C12: an invocation whose context is cancelled while it waits in a backoff
\* with the timer pending (it is parked in the select) can return at once, and
\* its next step returns the cancellation error without another call of the
\* handler.
C12_WaitCancellable ==
    /\ [](\A v \in Invs :
            (inv[v].pc = "parked" /\ inv[v].ctx # Nil) => ENABLED RetryWaitCancelled(v))
    /\ [][\A v \in Invs :
            (inv[v].pc = "parked" /\ inv[v].ctx # Nil /\ inv'[v] # inv[v]) =>
                /\ inv'[v].pc = "done"
                /\ inv'[v].ret = inv[v].ctx
                /\ inv'[v].calls = inv[v].calls]_vars

\* an invocation cancelled in the wait before its first retry has returned
C12_Witness ==
    \E v \in Invs :
        /\ inv[v].pc = "done" /\ inv[v].ret = Canceled
        /\ inv[v].i = 1 /\ inv[v].calls = 1
        /\ inv[v].last = HandlerErr(1)

\* ------------------------------------------------------------ SpecDispatch
NextDispatch ==
    \/ \E lp \in BOOLEAN, id \in LogIDs, k \in WrapKinds, m \in BOOLEAN, ok \in BOOLEAN :
           Dispatch(lp, id, k, m, ok)
    \/ \E e \in WriteErrs, part \in BOOLEAN : TraceStart(e, part)
    \/ \E e \in WriteErrs, part \in BOOLEAN : HandlerWrite(e, part)
    \/ \E e \in {"nil"} \cup HandlerErrs : HandlerReturn(e)
    \/ HandlerPanic
    \/ DispatchSelectErr
    \/ DispatchSelectDone
    \/ \E e \in WriteErrs, part \in BOOLEAN : TraceFinish(e, part)
    \/ ClosureReturn
    \/ ClosurePanic
    \/ GetHealthStatusRunning
    \/ GetHealthStatusLastError
    \/ GetHealthStatusCount

SpecDispatch == Init /\ [][NextDispatch]_vars

TerminalLines == SelectSeq(logLines, LAMBDA l : l \in {"completed", "failed"})

\* what is in the file of a terminal line, whole or the part of one
TerminalWrites ==
    SelectSeq(logLines, LAMBDA l : l \in {"completed", "failed", PartialLine("completed"),
                                          PartialLine("failed")})

\* C13: when the handler given to executeTaskWithTrace has returned, the
\* error returned is nil, the result text is "SUCCESS" exactly when the handler
\* returned nil and "FAIL: " with the error's message otherwise, and the
\* metrics label (when metrics are on) and the terminal log line (when there
\* is a log writer) agree with it: the only terminal line written to the file
\* is the one of the result, "completed" for "SUCCESS" and "failed" otherwise,
\* whole and once when its write succeeded, and at most a part of it when the
\* write failed.
C13_TraceResult ==
    (disp.pc \in {"traced", "done"} /\ disp.outcome # "panicked") =>
        /\ disp.retErr = "nil"
        /\ disp.result = <<"SUCCESS">> <=> disp.err = "nil"
        /\ disp.err # "nil" => disp.result = <<"FAIL: ", disp.err>>
        /\ disp.metrics => disp.status = (IF disp.result = <<"SUCCESS">>
                                          THEN "success" ELSE "error")
        /\ LET line == IF disp.result = <<"SUCCESS">> THEN "completed" ELSE "failed"
           IN /\ writer # "none" /\ disp.werr = "nil" => TerminalWrites = <<line>>
              /\ writer # "none" /\ disp.werr # "nil" =>
                     TerminalWrites \in {<<>>, <<PartialLine(line)>>}
              /\ writer = "none" => TerminalWrites = <<>>

\* a failed invocation with metrics and a log file has been answered, after
\* the write of a line of the handler had failed
C13_Witness ==
    /\ disp.pc = "done" /\ disp.outcome = "returned"
    /\ disp.err = "errH" /\ disp.result = <<"FAIL: ", "errH">>
    /\ disp.status = "error"
    /\ disp.werr = "nil"
    /\ logLines = <<"started", PartialLine("handler"), "failed">>

\* C14: after a dispatched invocation whose effective handler returned an
\* error has completed, the LastError a GetHealthStatus call reads for its
\* snapshot is that error.
C14_LastErrorRecorded ==
    [][(/\ disp.pc = "done" /\ disp.outcome = "returned" /\ disp.err # "nil"
        /\ health.pc = "lastError" /\ health'.pc = "count") =>
           health'.LastError = disp.err]_vars

\* C15: in the log file of an invocation the "started" line comes first and no
\* line written by the handler follows the "completed" or "failed" line.
C15_LogLineOrder ==
    \A i \in 1..Len(logLines) :
        /\ logLines[i] = "started" <=> i = 1
        /\ logLines[i] \in {"completed", "failed"} => i = Len(logLines)

\* C16: a LogWriter exists only for a configured log path and a positive log
\* id, and its file is closed once the closure has returned or a panic has
\* passed through it.
C16_WriterClosed ==
    /\ writer # "none" => (disp.logPath /\ disp.logID > 0)
    /\ disp.pc = "done" => writer # "open"

\* a handler that wrote to the log and then panicked: the writer is closed
C16_Witness ==
    /\ disp.pc = "done" /\ disp.outcome = "panicked"
    /\ writer = "closed"
    /\ logLines = <<"started", "handler">>

\* ----------------------------------------------------------- SpecLogWriter
NextLogWriter ==
    \/ \E p \in Procs, c \in Contents : CallWrite(p, c)
    \/ \E p \in Procs, l \in Lines \cup LinesWithin : CallWriteLine(p, l)
    \/ \E p \in Procs : CallClose(p)
    \/ \E p \in Procs : Lock(p)
    \/ \E p \in Procs, e \in WriteErrs : WriteString(p, e)
    \/ \E p \in Procs, e \in {"nil", "errClose"} : CloseLocked(p, e)

SpecLogWriter == Init /\ [][NextLogWriter]_vars

RECURSIVE Concat(_)
Concat(recs) == IF recs = <<>> THEN <<>> ELSE Head(recs).wrote \o Concat(Tail(recs))

\* what the holder of the lock has written of its line so far
Partial ==
    IF \E p \in Procs : wp[p].pc = "write"
    THEN LET p == CHOOSE q \in Procs : wp[q].pc = "write"
         IN SubSeq(wp[p].line, 1, Len(wp[p].line) - Len(wp[p].pending))
    ELSE <<>>

\* C17: a Close issued after a Close has completed returns nil, and a Write or
\* WriteLine issued after it returns; none of them changes the file or the
\* writer, which the first Close left with a nil file.
C17_CloseIdempotent ==
    /\ \A i \in 1..Len(hist) :
           hist[i].late => (hist[i].ret = "nil" /\ hist[i].wrote = <<>>)
    /\ (\E i \in 1..Len(hist) : hist[i].op = "Close") => wFile = "nil"
    /\ wFile = "nil" => fileBytes = Concat(hist)

\* after a Close, a second Close and a Write have returned
C17_Witness ==
    /\ Len(hist) = 3
    /\ hist[1].op = "Close" /\ ~hist[1].late
    /\ \E i, j \in 2..3 : /\ hist[i].op = "Close" /\ hist[i].late
                           /\ hist[j].op = "Write" /\ hist[j].late

\* wrote is line without some or all of its end
ProperPrefix(wrote, line) ==
    /\ Len(wrote) < Len(line)
    /\ wrote = SubSeq(line, 1, Len(wrote))

\* C18 as claimed: the file is the lines of the calls that wrote, one after
\* the other, followed by what the call holding the lock has written so far;
\* each call's line ends with its only newline, and every call that returned
\* before Close was called has written its line.
C18_WholeLines ==
    /\ fileBytes = Concat(hist) \o Partial
    /\ \A i \in 1..Len(hist) :
           /\ hist[i].wrote # <<>> =>
                  (HasSuffix(hist[i].wrote, NL) /\ Newlines(hist[i].wrote) = 1)
           /\ (hist[i].op # "Close" /\ \A j \in 1..i : hist[j].op # "Close") =>
                  hist[i].wrote # <<>>

\* C18: the file is what the calls of Write and WriteLine have written, call
\* after call in the order of the lock, followed by what the call holding the
\* lock has written so far, so no byte of one call lies between two bytes of
\* another. A call whose file.WriteString succeeded has written its whole
\* line, the text with one newline put after it (none by WriteLine after a
\* text that ends with one): one line of the file when the text has no
\* newline inside. A call whose file.WriteString failed has written the line
\* without some or all of its end, and nothing after that. Every call that
\* returned before Close was called has written in one of these two ways.
C18_WholeLinesUnlessWriteFails ==
    /\ fileBytes = Concat(hist) \o Partial
    /\ \A i \in 1..Len(hist) :
           /\ (hist[i].op # "Close" /\ ~hist[i].late /\ hist[i].werr = "nil") =>
                  /\ hist[i].wrote = hist[i].line
                  /\ HasSuffix(hist[i].wrote, NL)
                  /\ Newlines(hist[i].wrote) =
                         1 + Newlines(SubSeq(hist[i].line, 1, Len(hist[i].line) - 1))
           /\ hist[i].werr # "nil" => ProperPrefix(hist[i].wrote, hist[i].line)
           /\ (hist[i].op = "Close" \/ hist[i].late) => hist[i].wrote = <<>>
           /\ (hist[i].op # "Close" /\ \A j \in 1..i : hist[j].op # "Close") =>
                  /\ ~hist[i].late
                  /\ hist[i].werr \in WriteErrs

\* two goroutines were writing at the same time: the write of the first one
\* failed after the time stamp, the line of the second one is whole
C18_Witness ==
    /\ Len(hist) = 2
    /\ hist[1].op = "Write" /\ hist[1].werr = "errWrite" /\ hist[1].wrote = <<"T">>
    /\ hist[2].op = "WriteLine" /\ hist[2].werr = "nil"
    /\ fileBytes = <<"T", "b", NL>>
    /\ \E p \in Procs : wp[p].pc = "lock"

\* ------------------------------------------------------------- SpecReadLog
\* the calls share no state: one call is followed from Init
NextReadLog ==
    /\ rd = NoRead
    /\ \E f \in Files \cup {NoFile}, k \in FromLineNums, n \in PageSizes, e \in OsErrs :
           ReadLog(f, k, n, e)

SpecReadLog == Init /\ [][NextReadLog]_vars

\* the lines of the file read last, and the lines lo..hi of them (counted
\* from 0), each with its terminator
FileLines == IF rd.file = NoFile THEN <<>> ELSE ScanLines(rd.file)

RECURSIVE Terminated(_, _, _)
Terminated(lines, lo, hi) ==
    IF lo > hi THEN <<>> ELSE lines[lo + 1] \o <<NL>> \o Terminated(lines, lo + 1, hi)

\* one of the lines 0..n of the file (counted from 0) is too long for a
\* scanner with the token limit maxToken
LongLineUpTo(file, n, maxToken) ==
    LET lens == TokenLens(file, 0, FALSE)
    IN \E i \in 1..Len(lens) : i <= n + 1 /\ lens[i] >= maxToken

\* C19: a file of N >= 1 lines read (the operating system letting it be read)
\* from line 0 with a page size of N or more gives all N lines,
\* toLineNum = N - 1 and isEnd = true.
C19_WholeFileIsEnd ==
    LET N == Len(FileLines) IN
    (rd.os = "nil" /\ N >= 1 /\ rd.from = 0 /\ rd.page >= N) =>
        /\ rd.res.err = "nil"
        /\ rd.res.Content = Terminated(FileLines, 0, N - 1)
        /\ rd.res.ToLineNum = N - 1
        /\ rd.res.IsEnd

\* C22: an existing empty file (os.Stat finds it) read with any fromLineNum and
\* page size gives, without error, empty content, isEnd = true and
\* toLineNum = max(fromLineNum, 0).
C22_ReadEmptyFile ==
    (rd.file = <<>> /\ rd.os # "stat" /\ rd.res.err # "none") =>
        /\ rd.res.err = "nil"
        /\ rd.res.Content = <<>>
        /\ rd.res.IsEnd
        /\ rd.res.ToLineNum = Max({rd.from, 0})

\* an empty file has been read from a negative line number
C22_Witness ==
    /\ rd.file = <<>> /\ rd.from < 0 /\ rd.res.err = "nil"
    /\ rd.res.Content = <<>> /\ rd.res.ToLineNum = 0 /\ rd.res.IsEnd

\* ------------------------------------------------------------- SpecReadBig
NextReadBig ==
    /\ rd = NoRead
    /\ \E f \in Files, k \in FromLineNums, n \in PageSizes, e \in OsErrs :
           ReadLogScaled(f, k, n, e)

SpecReadBig == Init /\ [][NextReadBig]_vars

\* C20 as the specification has it: a file of N lines read from line k
\* (0 <= k < N) with a page size p, 0 < p < N - k, gives the lines k..k+p-1,
\* each with its terminator, toLineNum = k + p - 1 and isEnd = false; a
\* negative fromLineNum gives what fromLineNum = 0 gives.
C20_PageOfLines ==
    LET N == Len(FileLines)
        k == IF rd.from < 0 THEN 0 ELSE rd.from
        p == rd.page
    IN /\ (rd.os = "nil" /\ 0 <= k /\ k < N /\ 0 < p /\ p < N - k) =>
              /\ rd.res.err = "nil"
              /\ rd.res.Content = Terminated(FileLines, k, k + p - 1)
              /\ HasSuffix(rd.res.Content, NL)
              /\ rd.res.ToLineNum = k + p - 1
              /\ ~rd.res.IsEnd
       /\ rd.from < 0 =>
              rd.res = readLog(rd.file, 0, rd.page, ScaledMaxSize, ScaledPageSize,
                               ScaledMaxToken, rd.os)

\* C20, amended: the same when none of the lines 0..k+p-1 reaches the
\* scanner's token limit; when one of them does the read fails with the scan
\* error.
C20_PageOfLinesWithinLimit ==
    LET N == Len(FileLines)
        k == IF rd.from < 0 THEN 0 ELSE rd.from
        p == rd.page
    IN /\ (rd.os = "nil" /\ 0 <= k /\ k < N /\ 0 < p /\ p < N - k) =>
              IF LongLineUpTo(rd.file, k + p - 1, ScaledMaxToken)
              THEN rd.res.err = "failed to scan log file"
              ELSE /\ rd.res.err = "nil"
                   /\ rd.res.Content = Terminated(FileLines, k, k + p - 1)
                   /\ HasSuffix(rd.res.Content, NL)
                   /\ rd.res.ToLineNum = k + p - 1
                   /\ ~rd.res.IsEnd
       /\ rd.from < 0 =>
              rd.res = readLog(rd.file, 0, rd.page, ScaledMaxSize, ScaledPageSize,
                               ScaledMaxToken, rd.os)

\* the second of three lines has been read alone
C20_Witness ==
    /\ rd.file = <<NL, "a", NL, "b">>
    /\ rd.from = 1 /\ rd.page = 1 /\ rd.os = "nil"
    /\ rd.res.err = "nil"
    /\ rd.res.Content = <<"a", NL>>
    /\ rd.res.ToLineNum = 1 /\ ~rd.res.IsEnd

\* C21 as the specification has it: a non-empty file of N lines read from a
\* line number of N or more gives empty content, isEnd = true and
\* toLineNum = N - 1, for every page size.
C21_ReadPastEnd ==
    LET N == Len(FileLines) IN
    (rd.os = "nil" /\ Len(rd.file) > 0 /\ rd.res.err # "none" /\ rd.from >= N) =>
        /\ N >= 1
        /\ rd.res.err = "nil"
        /\ rd.res.Content = <<>>
        /\ rd.res.IsEnd
        /\ rd.res.ToLineNum = N - 1

\* C21, amended: the same when no line of the file reaches the scanner's token
\* limit; when one does the read fails with the scan error.
C21_ReadPastEndWithinLimit ==
    LET N == Len(FileLines) IN
    (rd.os = "nil" /\ Len(rd.file) > 0 /\ rd.res.err # "none" /\ rd.from >= N) =>
        /\ N >= 1
        /\ IF LongLineUpTo(rd.file, N - 1, ScaledMaxToken)
           THEN rd.res.err = "failed to scan log file"
           ELSE /\ rd.res.err = "nil"
                /\ rd.res.Content = <<>>
                /\ rd.res.IsEnd
                /\ rd.res.ToLineNum = N - 1

\* a file of two lines has been read from line 3
C21_Witness ==
    /\ rd.file = <<"a", NL, "b", NL>>
    /\ rd.from = 3 /\ rd.page = 1 /\ rd.os = "nil"
    /\ rd.res.err = "nil"
    /\ rd.res.Content = <<>> /\ rd.res.ToLineNum = 1 /\ rd.res.IsEnd

\* C29: a read of a file larger than the size threshold returns at most the
\* default page size of lines whatever page size was passed, and a page size
\* of zero or less is treated as the default page size for every file.
C29_PageCap ==
    rd.res.err = "nil" =>
        /\ Len(rd.file) > ScaledMaxSize => Newlines(rd.res.Content) <= ScaledPageSize
        /\ rd.page <= 0 =>
               rd.res = readLog(rd.file, rd.from, ScaledPageSize, ScaledMaxSize,
                                ScaledPageSize, ScaledMaxToken, rd.os)

\* ------------------------------------------------------------ SpecLogQuery
\* handleLogRequest keeps no state of its own: one call is followed, made at
\* any moment of the writer's appends, which are followed up to the call
NextLogQuery ==
    \/ lq = NoQuery /\ OpenLogFile
    \/ lq = NoQuery /\ \E c \in Contents, e \in WriteErrs :
           \E k \in 1..Len(WriteBytes(c)) : AppendLine(WriteBytes(c), k, e)
    \/ lq = NoQuery /\ \E l \in Lines, e \in WriteErrs :
           \E k \in 1..Len(WriteLineBytes(l)) : AppendLine(WriteLineBytes(l), k, e)
    \/ lq = NoQuery /\ \E k \in 1..Len(wr), e \in WriteErrs : AppendMore(k, e)
    \/ lq = NoQuery /\ \E r \in LogReqs, lp \in LogPaths, e \in OsErrs : HandleLog(r, lp, e)

SpecLogQuery == Init /\ [][NextLogQuery]_vars

\* C23: the answer has code 500 and a message exactly when the request is
\* nil, the log path is empty, the file of the requested id does not exist or
\* the read fails; otherwise it has code 200 and "success", the request's
\* fromLineNum, and what the reader returns for the file the writer of that id
\* appends to.
C23_LogResponse ==
    lq.res.Code # 0 =>
        LET path == LogFilePath(lq.logPath, lq.req.LogID)
            bad == \/ lq.req.isNil
                   \/ lq.logPath = ""
                   \/ path \notin DOMAIN lq.files
                   \/ lq.os = "stat"
                   \/ /\ lq.files[path] # <<>>
                      /\ \/ lq.os \in {"open", "read"}
                         \/ LongLineUpTo(lq.files[path],
                                         Max({lq.req.FromLineNum, 0}) + defaultLogPageSize - 1,
                                         maxTokenSize)
        IN /\ lq.res.Code \in {200, 500}
           /\ lq.res.Code = 500 <=> bad
           /\ lq.res.Code = 500 => lq.res.Msg # ""
           /\ lq.res.Code = 200 =>
                  LET r == readLogFileWithPagination(lq.files[path], lq.req.FromLineNum,
                                                     defaultLogPageSize, lq.os)
                  IN /\ lq.res.Msg = "success"
                     /\ lq.res.FromLineNum = lq.req.FromLineNum
                     /\ lq.res.ToLineNum = r.ToLineNum
                     /\ lq.res.LogContent = r.Content
                     /\ lq.res.IsEnd = r.IsEnd

\* the second line of the log of invocation 1 has been asked for and answered
C23_Witness ==
    /\ lq.req = [LogID |-> 1, FromLineNum |-> 1, isNil |-> FALSE]
    /\ lq.res.Code = 200 /\ lq.res.FromLineNum = 1 /\ lq.res.ToLineNum = 1
    /\ lq.res.LogContent = <<"b", NL>>
    /\ lq.res.IsEnd

\* ---------------------------------------------------------------- SpecTail
NextTail ==
    \/ OpenLogFile
    \/ \E c \in Contents, e \in WriteErrs :
           \E k \in 1..Len(WriteBytes(c)) : AppendLine(WriteBytes(c), k, e)
    \/ \E l \in Lines, e \in WriteErrs :
           \E k \in 1..Len(WriteLineBytes(l)) : AppendLine(WriteLineBytes(l), k, e)
    \/ \E k \in 1..Len(wr), e \in WriteErrs : AppendMore(k, e)
    \/ TailRead

SpecTail == Init /\ [][NextTail]_vars

TailFile ==
    IF LogFilePath("logs", 1) \in DOMAIN fs THEN fs[LogFilePath("logs", 1)] ELSE <<>>

\* C30: what a following client has received is the lines of the file in
\* order, none skipped and none repeated: always a prefix of the file, and the
\* whole file after a read that no append has followed.
C30_TailExactlyOnce ==
    /\ Len(tail.got) <= Len(TailFile)
    /\ tail.got = SubSeq(TailFile, 1, Len(tail.got))
    /\ tail.caughtUp => tail.got = TailFile

\* ------------------------------------------------------------- SpecCleanup
NextCleanup ==
    \/ Tick
    \/ \E name \in DirNames, mtime \in 0..MaxTime :
          (MatchesPattern(name) \/ mtime = 0) /\ CreateEntry(name, FALSE, mtime)
    \/ \E name \in {DirOrder[4]}, mtime \in 0..MaxTime : CreateEntry(name, TRUE, mtime)
    \/ \E id \in {1, 2} : TouchEntry(LogFileName(id))
    \/ \E lp \in LogPaths, d \in RetentionDays, ok \in BOOLEAN : cleanupOldLogs(lp, d, ok)
    \/ \E infoErr \in BOOLEAN : cleanupInfo(infoErr)
    \/ \E removeErr \in BOOLEAN : cleanupRemove(removeErr)

SpecCleanup == Init /\ [][NextCleanup]_vars

\* C24: a sweep with retentionDays = d > 0 removes an entry only if it is a
\* file, not a directory, named jobhandler-*.log and last modified before the
\* sweep's time minus d days (so everything else, a file appended to within
\* the period included, is still there); a step of the sweep adds no entry and
\* changes none; and after an os.Remove, failed or not, the sweep goes on
\* with the next entry.
C24_SweepRemovesOnlyOld ==
    [][/\ \A name \in DOMAIN logDir :
              name \notin DOMAIN logDir' =>
                  /\ swept.pc = "remove" /\ swept.d > 0
                  /\ ~logDir[name].isDir
                  /\ MatchesPattern(name)
                  /\ logDir[name].mtime < swept.cutoff
       /\ swept' # swept =>
              /\ DOMAIN logDir' \subseteq DOMAIN logDir
              /\ \A name \in DOMAIN logDir' : logDir'[name] = logDir[name]
       /\ swept.pc = "remove" /\ swept' # swept =>
              /\ swept'.pc = "info"
              /\ swept'.i = swept.i + 1]_vars

\* ------------------------------------------------------------ SpecSnapshot
NextSnapshot ==
    \/ \E n \in {"a", "b"}, h \in {<<"h1">>} : PtrRegister(n, h)
    \/ \E n \in {"a", "b"} : PtrUnregister(n)
    \/ PtrClear
    \/ CallGetAll
    \/ \E n \in {"a", "b"}, h \in {<<"h2">>} : SnapInsert(n, h)
    \/ \E n \in {"a", "b"} : SnapDelete(n)
    \/ \E n \in {"a", "b"}, h \in {NilHandler, <<"h2">>} : SnapMutate(n, h)

SpecSnapshot == Init /\ [][NextSnapshot]_vars

\* C25: a step of the holder of a GetAll result, whatever it does to what it
\* received, leaves what Get, GetNames and Count return unchanged, and a later
\* Register, Unregister or Clear leaves the returned snapshot unchanged.
C25_SnapshotIndependent ==
    [][/\ snapOp' = "holder" => Deref(regPtr', heap') = Deref(regPtr, heap)
       /\ snapOp' = "registry" /\ snap' = snap
             => Deref(snap.m, heap') = Deref(snap.m, heap)]_vars

\* C26: every inspection and use of the file handle is ordered with Close by
\* the mutex: no Close sets the handle to nil between a call's test of the
\* handle and that call's taking of the mutex, so a call that waits for the
\* mutex after finding the handle open still finds it open.
C26_HandleUnderMutex ==
    \A p \in Procs : wp[p].pc = "lock" => wFile # "nil"

\* C27: a RegTask call with a nil handler that has passed the running test
\* returns an error from its registration step and leaves the task registry
\* as it is, so that nothing reaches the SDK executor, whatever the
\* middleware list of the executor.
C27_NilHandlerRejected ==
    [][\A p \in Procs :
          proc[p].pc = "reg_register" /\ proc[p].handler = NilHandler /\ proc'[p] # proc[p]
              => /\ tasks' = tasks
                 /\ proc'[p].pc = "idle"
                 /\ xret' = [p |-> p, op |-> "RegTask", err |-> "failed to register task"]]_vars

\* ------------------------------------------------------------- SpecBuilder
NextBuilder ==
    \/ \E m \in {"recovery", "timeout"} : BuilderMiddleware(m)
    \/ Build
    \/ Tick
    \/ \E p \in Procs, n \in BuilderTaskNames, h \in {NilHandler, <<"h1">>} :
           RegTaskCheck(p, n, h)
    \/ \E p \in Procs : RegTaskWrap(p)
    \/ \E p \in Procs : RegTaskRegister(p)
    \/ \E p \in Procs : RegTaskSdk(p)

SpecBuilder == Init /\ [][NextBuilder]_vars

\* C28: once Build has returned the executor, the middleware sequence its
\* RegTask calls apply never changes, whatever is called on the builder.
C28_ChainFixedAfterBuild ==
    [][built => middlewares' = middlewares]_vars

\* C31: an invocation of the handler RetryMiddleware(n, b) returns has returned
\* nil only if one of the calls of next it made returned nil, for every n.
C31_NilOnlyAfterSuccess ==
    \A v \in Invs :
        inv[v].pc = "done" /\ inv[v].ret = Nil => inv[v].nils >= 1

\* C32: whenever a goroutine is inside the SDK executor's Run and the SDK
\* executor has not been stopped since, IsRunning() is true and a Run call has
\* been issued after the last Stop call.
C32_RunningAgreesWithSdk ==
    (sdk = "serving" /\ \E p \in Procs : proc[p].pc = "run_sdk")
        => (IsRunning /\ runCalled)

\* C33: when a Run call returns because the SDK executor's Run has returned,
\* with or without an error, IsRunning() is false afterwards, so that the next
\* Run call is accepted.
C33_NotRunningAfterRunReturns ==
    [][\A p \in Procs :
          proc[p].pc = "run_sdk" /\ proc'[p].pc = "idle" => ~running']_vars

\* C34: the names in the task registry that the SDK executor does not have yet
\* are those of the RegTask calls between their two registrations, so that
\* once the calls have returned both hold the same names; the handler the SDK
\* executor has for a name is the wrapped handler the registry stores for it;
\* and no name is registered with the SDK executor a second time.
C34_RegistryMatchesSdk ==
    /\ [](/\ DOMAIN sdkTasks \subseteq DOMAIN tasks
          /\ DOMAIN tasks \ DOMAIN sdkTasks =
                 {proc[p].name : p \in {q \in Procs : proc[q].pc = "reg_sdk"}}
          /\ \A n \in DOMAIN sdkTasks : sdkTasks[n] = tasks[n].Handler
          /\ \A p \in Procs :
                 proc[p].pc = "reg_sdk" => proc[p].wrapped = tasks[proc[p].name].Handler)
    /\ [][\A p \in Procs :
            proc[p].pc = "reg_sdk" /\ proc'[p] # proc[p]
                => /\ proc[p].name \notin DOMAIN sdkTasks
                   /\ proc[p].name \in DOMAIN sdkTasks']_vars

\* task "a" is in the registry and in the SDK executor with its handler
\* wrapped by two middlewares, a second RegTask("a") has been rejected and
\* every call has returned
C34_Witness ==
    /\ \A p \in Procs : proc[p].pc = "idle"
    /\ middlewares = <<"recovery", "timeout">>
    /\ DOMAIN tasks = {"a"} /\ DOMAIN sdkTasks = {"a"}
    /\ sdkTasks["a"] = applyMiddlewares(<<"h1">>, middlewares)
    /\ xret.op = "RegTask" /\ xret.err = "failed to register task"
====
